---- MODULE Spec2Model ----
(***************************************************************************)
(* A model of the gonv value-coercion library: the scalar engines (bool,   *)
(* signed, unsigned, float, string, duration, timestamp), the sequence and *)
(* mapping engines and the numeric-string normalizer.                      *)
(*                                                                         *)
(* Text is a sequence of one-character strings.  A dynamically typed value *)
(* is a record [dyn |-> its dynamic type, val |-> its payload].  Floats    *)
(* are fixed-point numbers counted in 1/FloatUnit.  Integers are kept      *)
(* below 2^31 in magnitude, so only the 8 and 16 bit targets narrow.       *)
(***************************************************************************)
EXTENDS Integers, Sequences, FiniteSets, TLC

\* Longest generated text.
MaxLen == 3
\* Longest generated sequence / largest generated mapping.
MaxSeq == 2

FloatUnit == 10 ^ MaxLen

Alphabet == {"-", "0", "1", ".", "a"}

Nil == [dyn |-> "nil", val |-> 0]
Mk(d, v) == [dyn |-> d, val |-> v]

-----------------------------------------------------------------------------
(* Errors.  An error is a chain of frames, outermost first; <<>> is nil.   *)

NoErr == <<>>
Frame(kind, o, to) == [e |-> kind, o |-> o, to |-> to]
\* the errors of the standard library and of capability methods
LibErr(kind) == << Frame(kind, Nil, "") >>

Outcome(v, err) == [val |-> v, err |-> err, panic |-> FALSE]
Panic == [val |-> 0, err |-> NoErr, panic |-> TRUE]

-----------------------------------------------------------------------------
(* Text helpers and the strconv functions the engines call.                *)

DigitVal(c) ==
    CASE c = "0" -> 0 [] c = "1" -> 1 [] c = "2" -> 2 [] c = "3" -> 3
      [] c = "4" -> 4 [] c = "5" -> 5 [] c = "6" -> 6 [] c = "7" -> 7
      [] c = "8" -> 8 [] c = "9" -> 9
      [] c \in {"a", "A"} -> 10 [] c \in {"b", "B"} -> 11
      [] c \in {"c", "C"} -> 12 [] c \in {"d", "D"} -> 13
      [] c \in {"e", "E"} -> 14 [] c \in {"f", "F"} -> 15
      [] OTHER -> 99

IsDigit(c) == DigitVal(c) < 10

Tail2(s, k) == SubSeq(s, k + 1, Len(s))

RECURSIVE Accumulate(_, _, _)
Accumulate(s, base, n) ==
    IF s = <<>> THEN n
    ELSE Accumulate(Tail(s), base, n * base + DigitVal(s[1]))

\* strconv.ParseUint(s, base, 0) for base 0 (prefix detection) and base 10.
\* The generated texts hold no '_'; the one text of more than 20 digits is a
\* decimal number beyond 2^64, which is a range error, and all others stay
\* far below 2^64.
ParseUint(s, base) ==
    IF s = <<>> THEN [v |-> 0, err |-> "syntax"]
    ELSE LET pre == IF base = 0 /\ s[1] = "0"
                    THEN (IF Len(s) >= 3 /\ s[2] \in {"b", "B", "o", "O", "x", "X"}
                          THEN 2 ELSE 1)
                    ELSE 0
             b   == IF base # 0 THEN base
                    ELSE IF pre = 0 THEN 10
                    ELSE IF pre = 1 THEN 8
                    ELSE IF s[2] \in {"b", "B"} THEN 2
                    ELSE IF s[2] \in {"o", "O"} THEN 8
                    ELSE 16
             body == Tail2(s, pre)
         IN  IF \E i \in 1..Len(body) : DigitVal(body[i]) >= b
             THEN [v |-> 0, err |-> "syntax"]
             ELSE IF Len(body) > 20 THEN [v |-> 0, err |-> "range"]
             ELSE [v |-> Accumulate(body, b, 0), err |-> ""]

\* strconv.ParseInt(s, base, 0)
ParseInt(s, base) ==
    IF s = <<>> THEN [v |-> 0, err |-> "syntax"]
    ELSE LET neg  == s[1] = "-"
             rest == IF s[1] \in {"+", "-"} THEN Tail(s) ELSE s
             un   == ParseUint(rest, base)
         IN  IF un.err # "" THEN [v |-> 0, err |-> un.err]
             ELSE [v |-> IF neg THEN 0 - un.v ELSE un.v, err |-> ""]

\* strconv.ParseBool
\* fault: a parser that takes the literals in any letter case
ParseBool_AnyCase(s) ==
    IF s \in { <<"1">>, <<"t">>, <<"T">>, <<"T","R","U","E">>, <<"t","r","u","e">>,
               <<"T","r","u","e">>, <<"t","R","U","E">>, <<"t","r","u","E">> }
    THEN [v |-> TRUE, err |-> ""]
    ELSE IF s \in { <<"0">>, <<"f">>, <<"F">>, <<"F","A","L","S","E">>,
                    <<"f","a","l","s","e">>, <<"F","a","l","s","e">>,
                    <<"f","A","L","S","E">> }
    THEN [v |-> FALSE, err |-> ""]
    ELSE [v |-> FALSE, err |-> "syntax"]

ParseBool(s) ==
    IF s \in { <<"1">>, <<"t">>, <<"T">>, <<"T","R","U","E">>,
               <<"t","r","u","e">>, <<"T","r","u","e">> }
    THEN [v |-> TRUE, err |-> ""]
    ELSE IF s \in { <<"0">>, <<"f">>, <<"F">>, <<"F","A","L","S","E">>,
                    <<"f","a","l","s","e">>, <<"F","a","l","s","e">> }
    THEN [v |-> FALSE, err |-> ""]
    ELSE [v |-> FALSE, err |-> "syntax"]

IndexOf(s, c) ==
    IF \E i \in 1..Len(s) : s[i] = c
    THEN CHOOSE i \in 1..Len(s) : s[i] = c /\ \A j \in 1..(i - 1) : s[j] # c
    ELSE 0

\* strconv.ParseFloat(s, 64) on plain decimal text [+-]digits[.digits]; the
\* generated texts hold no exponent, hex mantissa, "inf" or "nan".
ParseFloat(s) ==
    LET neg  == s # <<>> /\ s[1] = "-"
        rest == IF s # <<>> /\ s[1] \in {"+", "-"} THEN Tail(s) ELSE s
        dot  == IndexOf(rest, ".")
        ip   == IF dot = 0 THEN rest ELSE SubSeq(rest, 1, dot - 1)
        fp   == IF dot = 0 THEN <<>> ELSE Tail2(rest, dot)
        ok   == /\ Len(ip) + Len(fp) > 0
                /\ \A i \in 1..Len(ip) : IsDigit(ip[i])
                /\ \A i \in 1..Len(fp) : IsDigit(fp[i])
        \* fraction digits beyond the fixed-point resolution are cut
        fq   == IF Len(fp) > MaxLen THEN SubSeq(fp, 1, MaxLen) ELSE fp
        mag  == Accumulate(ip, 10, 0) * FloatUnit
                + Accumulate(fq, 10, 0) * (10 ^ (MaxLen - Len(fq)))
    IN  IF ~ok THEN [v |-> 0, err |-> "syntax"]
        ELSE [v |-> IF neg THEN 0 - mag ELSE mag, err |-> ""]

RECURSIVE FormatUintDec(_)
FormatUintDec(n) ==
    LET d == << "0","1","2","3","4","5","6","7","8","9" >>
    IN  IF n < 10 THEN << d[n + 1] >>
        ELSE FormatUintDec(n \div 10) \o << d[(n % 10) + 1] >>

\* fault: the sign of a negative number not rendered
FormatInt_Magnitude(n) == FormatUintDec(IF n < 0 THEN 0 - n ELSE n)

\* strconv.FormatInt(n, 10) / strconv.Itoa / strconv.FormatUint(n, 10)
FormatInt(n) == IF n < 0 THEN <<"-">> \o FormatUintDec(0 - n) ELSE FormatUintDec(n)

\* strconv.FormatBool
FormatBool(b) == IF b THEN <<"t","r","u","e">> ELSE <<"f","a","l","s","e">>

RECURSIVE TrimZeros(_)
TrimZeros(s) ==
    IF s # <<>> /\ s[Len(s)] = "0" THEN TrimZeros(SubSeq(s, 1, Len(s) - 1)) ELSE s

RECURSIVE PadLeft(_, _)
PadLeft(s, n) == IF Len(s) >= n THEN s ELSE PadLeft(<<"0">> \o s, n)

\* the digits of frac/unit (unit a power of ten with k zeros), no trailing zeros
FracDigits(frac, k) == TrimZeros(PadLeft(FormatUintDec(frac), k))

\* strconv.FormatFloat(f, 'f', -1, bits): the shortest decimal that reads back
FormatFloat(f) ==
    LET mag  == IF f < 0 THEN 0 - f ELSE f
        fd   == FracDigits(mag % FloatUnit, MaxLen)
    IN  (IF f < 0 THEN <<"-">> ELSE <<>>)
        \o FormatUintDec(mag \div FloatUnit)
        \o (IF fd = <<>> THEN <<>> ELSE <<".">> \o fd)

\* a tenth, which no binary float holds exactly
Tenth == FloatUnit \div 10
\* f / FloatUnit is a binary fraction: a float32 holds it exactly
Binary(f) == f % (5 ^ MaxLen) = 0
\* the shortest decimal that reads back as the float64 equal to float32(0.1)
Lit_tenth32 == <<"0",".","1","0","0","0","0","0","0","0","1","4","9","0","1","1","6","1","2">>

\* strconv.FormatFloat(v.Float(), 'f', -1, 64) of a float of kind k:
\* reflect.Value.Float() widens a float32 to float64, and the widened value
\* of a float32 that is no binary fraction needs the digits of a float64
FormatWide(k, f) ==
    IF k = "float32" /\ ~Binary(f) /\ f = Tenth THEN Lit_tenth32 ELSE FormatFloat(f)

-----------------------------------------------------------------------------
(* The numeric-string normalizer.                                          *)

RECURSIVE trimZeroDecimalLoop(_, _, _)
trimZeroDecimalLoop(s, i, foundZero) ==
    IF i <= 0 THEN s
    ELSE IF s[i] = "." THEN
            (IF foundZero THEN SubSeq(s, 1, i - 1)
             ELSE trimZeroDecimalLoop(s, i - 1, foundZero))
    ELSE IF s[i] = "0" THEN trimZeroDecimalLoop(s, i - 1, TRUE)
    ELSE s

trimZeroDecimal(s) == trimZeroDecimalLoop(s, Len(s), FALSE)

-----------------------------------------------------------------------------
(* Dynamic types.                                                          *)

IntTypes   == {"int", "int64", "int32", "int16", "int8"}
UintTypes  == {"uint", "uint64", "uint32", "uint16", "uint8"}
FloatTypes == {"float64", "float32"}
\* protobuf boxes, held by pointer
NumBoxes   == {"*wrapperspb.DoubleValue", "*wrapperspb.FloatValue",
               "*wrapperspb.Int64Value", "*wrapperspb.Int32Value",
               "*wrapperspb.UInt64Value", "*wrapperspb.UInt32Value"}
FloatBoxes == {"*wrapperspb.DoubleValue", "*wrapperspb.FloatValue"}
TextBoxes  == {"*wrapperspb.StringValue", "*wrapperspb.BytesValue"}
PbTypes    == NumBoxes \cup TextBoxes
              \cup {"*wrapperspb.BoolValue", "*durationpb.Duration", "*timestamppb.Timestamp"}

\* user-defined types: named types without methods, and capability types
\*   MyInt int, MyUint uint, MyFloat float64, MyFloat32 float32, MyBool bool, MyString string,
\*   MyBytes []byte, MyStruct struct{}
\*   Stringer       struct with String() returning its text
\*   Valuer         struct with Value() returning (v, err)
\*   StringerValuer struct with both
\*   Level          int with String() returning a name
NamedKind ==
    [MyInt |-> "int", MyUint |-> "uint", MyFloat |-> "float64", MyFloat32 |-> "float32",
     MyBool |-> "bool",
     MyString |-> "string", MyBytes |-> "[]byte", MyStruct |-> "struct",
     Level |-> "int"]

\* types whose method set holds String() string
StringerTypes == {"json.Number", "time.Duration", "time.Weekday", "time.Month",
                  "time.Time", "Stringer", "StringerValuer", "Level",
                  "(*time.Duration)(nil)"} \cup PbTypes
\* a nil pointer to a type whose String method has a value receiver: the
\* pointer holds the method, and the call dereferences nil
NilReceiver(o) == o.dyn = "(*time.Duration)(nil)"
\* types whose method set holds Value() (driver.Value, error)
ValuerTypes == {"Valuer", "StringerValuer"}

\* the width of an integer type; int and uint are 64 bits wide
Bits(E) ==
    CASE E \in {"int8", "uint8"}   -> 8
      [] E \in {"int16", "uint16"} -> 16
      [] E \in {"int32", "uint32"} -> 32
      [] OTHER                     -> 64

OutOfModel == CHOOSE x \in {} : TRUE

\* fault: a value beyond the target's range pinned to the nearest bound
ToSigned_Saturate(E, n) ==
    IF Bits(E) >= 32 THEN n
    ELSE IF n >= 2 ^ (Bits(E) - 1) THEN 2 ^ (Bits(E) - 1) - 1
    ELSE IF n < 0 - 2 ^ (Bits(E) - 1) THEN 0 - 2 ^ (Bits(E) - 1)
    ELSE n

\* Go's integer conversion E(n): two's-complement wraparound to Bits(E) bits.
\* Model integers stay below 2^31, so 32 and 64 bit targets hold them all.
ToSigned(E, n) ==
    IF Bits(E) >= 32 THEN n
    ELSE LET m == 2 ^ Bits(E)
             r == n % m
         IN  IF r >= m \div 2 THEN r - m ELSE r

ToUnsigned(E, n) ==
    IF Bits(E) >= 32 THEN (IF n < 0 THEN OutOfModel ELSE n)
    ELSE n % (2 ^ Bits(E))

\* Go's float to integer conversion: the fraction is discarded
Trunc(f) == IF f >= 0 THEN f \div FloatUnit ELSE 0 - ((0 - f) \div FloatUnit)

-----------------------------------------------------------------------------
(* time.Duration: a count of nanoseconds.                                  *)

Microsecond == 10 ^ 3
Millisecond == 10 ^ 6
Second      == 10 ^ 9

Abs(n) == IF n < 0 THEN 0 - n ELSE n

\* time.Duration.String for |d| below one minute
DurationString(d) ==
    LET u == Abs(d)
        sign == IF d < 0 THEN <<"-">> ELSE <<>>
        fmt(unit, k, name) ==
            LET fd == FracDigits(u % unit, k)
            IN  FormatUintDec(u \div unit)
                \o (IF fd = <<>> THEN <<>> ELSE <<".">> \o fd) \o name
    IN  IF d = 0 THEN <<"0", "s">>
        ELSE sign \o
             (IF u < Microsecond THEN fmt(1, 0, <<"n", "s">>)
              ELSE IF u < Millisecond THEN fmt(Microsecond, 3, <<"µ", "s">>)
              ELSE IF u < Second THEN fmt(Millisecond, 6, <<"m", "s">>)
              ELSE IF u < 60 * Second THEN fmt(Second, 9, <<"s">>)
              ELSE OutOfModel)

\* time.unitMap; minutes and hours do not fit the model's integers
UnitOf(u) ==
    CASE u = <<"n", "s">> -> 1
      [] u \in { <<"u", "s">>, <<"µ", "s">>, <<"μ", "s">> } -> Microsecond
      [] u = <<"m", "s">> -> Millisecond
      [] u = <<"s">> -> Second
      [] u \in { <<"m">>, <<"h">> } -> OutOfModel
      [] OTHER -> 0

\* the length of the longest prefix of s whose characters satisfy / fail digit-or-dot
RECURSIVE SpanDigits(_)
SpanDigits(s) == IF s # <<>> /\ IsDigit(s[1]) THEN 1 + SpanDigits(Tail(s)) ELSE 0
RECURSIVE SpanUnit(_)
SpanUnit(s) ==
    IF s # <<>> /\ ~IsDigit(s[1]) /\ s[1] # "." THEN 1 + SpanUnit(Tail(s)) ELSE 0

RECURSIVE ParseDurationLoop(_, _)

\* the unit of one pair and the sum: s3 the text from the unit on, v and f the
\* digits before and after the point, nI and nF their counts, nU the unit's length
ParseDurationUnit(s3, d, v, nI, f, nF, nU) ==
    LET unit == UnitOf(SubSeq(s3, 1, nU))
    IN  IF nI = 0 /\ nF = 0 THEN [v |-> 0, err |-> "invalid duration"]
        ELSE IF nU = 0 THEN [v |-> 0, err |-> "missing unit"]
        ELSE IF unit = 0 THEN [v |-> 0, err |-> "unknown unit"]
        ELSE ParseDurationLoop(Tail2(s3, nU),
                d + v * unit
                  + (IF unit % (10 ^ nF) = 0
                     THEN f * (unit \div (10 ^ nF))
                     ELSE (f * unit) \div (10 ^ nF)))

\* the digits after the point: s2 the text from them on, nF their count
ParseDurationFraction(s2, d, v, nI, nF) ==
    ParseDurationUnit(Tail2(s2, nF), d, v, nI,
                      Accumulate(SubSeq(s2, 1, nF), 10, 0), nF,
                      SpanUnit(Tail2(s2, nF)))

\* the optional point: s1 the text after the leading digits
ParseDurationPoint(s1, d, v, nI) ==
    IF s1 # <<>> /\ s1[1] = "."
    THEN ParseDurationFraction(Tail(s1), d, v, nI, SpanDigits(Tail(s1)))
    ELSE ParseDurationFraction(s1, d, v, nI, 0)

\* the leading digits of one pair, nI their count
ParseDurationDigits(s, d, nI) ==
    ParseDurationPoint(Tail2(s, nI), d, Accumulate(SubSeq(s, 1, nI), 10, 0), nI)

\* the loop of time.ParseDuration over magnitude+unit pairs
ParseDurationLoop(s, d) ==
    IF s = <<>> THEN [v |-> d, err |-> ""]
    ELSE IF ~(s[1] = "." \/ IsDigit(s[1])) THEN [v |-> 0, err |-> "invalid duration"]
    ELSE ParseDurationDigits(s, d, SpanDigits(s))

\* time.ParseDuration
ParseDuration(s) ==
    LET neg  == s # <<>> /\ s[1] = "-"
        rest == IF s # <<>> /\ s[1] \in {"+", "-"} THEN Tail(s) ELSE s
        r    == ParseDurationLoop(rest, 0)
    IN  IF rest = <<"0">> THEN [v |-> 0, err |-> ""]
        ELSE IF rest = <<>> THEN [v |-> 0, err |-> "invalid duration"]
        ELSE IF r.err # "" THEN r
        ELSE [v |-> IF neg THEN 0 - r.v ELSE r.v, err |-> ""]

-----------------------------------------------------------------------------
(* Capabilities, reflection and the error constructors.                    *)

\* the protobuf text rendering behind String() of a box: set fields only
PbString(o) ==
    LET value == <<"v", "a", "l", "u", "e", ":">>
    IN  CASE o.dyn = "*wrapperspb.BoolValue" ->
                IF o.val THEN value \o FormatBool(TRUE) ELSE <<>>
          [] o.dyn \in FloatBoxes ->
                IF o.val = 0 THEN <<>> ELSE value \o FormatFloat(o.val)
          [] o.dyn \in NumBoxes \ FloatBoxes ->
                IF o.val = 0 THEN <<>> ELSE value \o FormatInt(o.val)
          [] o.dyn \in TextBoxes ->
                IF o.val = <<>> THEN <<>> ELSE value \o <<"\"">> \o o.val \o <<"\"">>
          [] o.dyn = "*durationpb.Duration" ->
                IF o.val = 0 THEN <<>>
                ELSE LET sec == (IF o.val < 0 THEN 0 - 1 ELSE 1) * (Abs(o.val) \div Second)
                         ns  == o.val - sec * Second
                     IN  (IF sec = 0 THEN <<>>
                          ELSE <<"s", "e", "c", "o", "n", "d", "s", ":">> \o FormatInt(sec))
                         \o (IF sec # 0 /\ ns # 0 THEN <<" ">> ELSE <<>>)
                         \o (IF ns = 0 THEN <<>>
                             ELSE <<"n", "a", "n", "o", "s", ":">> \o FormatInt(ns))
          [] o.dyn = "*timestamppb.Timestamp" ->
                IF o.val = 0 THEN <<>>
                ELSE <<"s", "e", "c", "o", "n", "d", "s", ":">> \o FormatInt(o.val)

WeekdayName(n) ==
    IF n \in 0..6
    THEN << <<"S","u","n","d","a","y">>, <<"M","o","n","d","a","y">>,
            <<"T","u","e","s","d","a","y">>, <<"W","e","d","n","e","s","d","a","y">>,
            <<"T","h","u","r","s","d","a","y">>, <<"F","r","i","d","a","y">>,
            <<"S","a","t","u","r","d","a","y">> >>[n + 1]
    ELSE <<"%", "!", "W", "e", "e", "k", "d", "a", "y", "(">> \o FormatInt(n) \o <<")">>

MonthName(n) ==
    IF n \in 1..3
    THEN << <<"J","a","n","u","a","r","y">>, <<"F","e","b","r","u","a","r","y">>,
            <<"M","a","r","c","h">> >>[n]
    ELSE IF n \in 4..12 THEN OutOfModel
    ELSE <<"%", "!", "M", "o", "n", "t", "h", "(">> \o FormatInt(n) \o <<")">>

\* Level.String(): the name of a level, never a number
LevelName(n) == <<"a">>

\* reflect.Kind of a dynamic type
Kind(d) ==
    IF d \in DOMAIN NamedKind THEN NamedKind[d]
    ELSE CASE d \in {"string", "json.Number"}                    -> "string"
           [] d \in {"time.Duration"}                             -> "int64"
           [] d \in {"time.Weekday", "time.Month"}                -> "int"
           [] d \in {"ptr", "nilptr", "(*time.Duration)(nil)"} \cup PbTypes -> "ptr"
           [] d \in {"slice", "array", "map"}                     -> d
           [] d \in {"time.Time", "Stringer", "Valuer", "StringerValuer",
                     "timestamppb.Timestamp"}                     -> "struct"
           [] OTHER                                               -> d

\* indirectValue: follow non-nil pointers.  A protobuf box is a pointer to a struct.
RECURSIVE indirectValue(_)
indirectValue(v) ==
    IF v.dyn = "ptr" THEN indirectValue(v.val)
    ELSE IF v.dyn \in PbTypes THEN Mk("MyStruct", 0)
    ELSE v

\* the zero value of a target type
Zero(E) ==
    CASE E = "bool"      -> FALSE
      [] E = "string"    -> <<>>
      [] E = "time.Time" -> [unix |-> 0, loc |-> "zero"]
      [] E = "slice"     -> [nil |-> TRUE, ref |-> "none", elems |-> <<>>]
      [] E = "map"       -> [nil |-> TRUE, elems |-> [k \in {} |-> 0]]
      [] OTHER           -> 0

failedCastValue(E, o) == Outcome(Zero(E), << Frame("cast", o, E) >>)
failedCastErrValue(E, o, err) == Outcome(Zero(E), << Frame("cast", o, E) >> \o err)

-----------------------------------------------------------------------------
(* The scalar engines.  Each is the code's type switch, first match wins,  *)
(* then the reflection slow path.  E names the target type.                *)

\* time.Time.String() of the instants the model generates
TimeString(t) ==
    CASE t = [unix |-> 1672574400, loc |-> "UTC"] ->
            <<"2","0","2","3","-","0","1","-","0","1"," ","1","2",":","0","0",":","0","0",
              " ","+","0","0","0","0"," ","U","T","C">>
      [] t = [unix |-> 0, loc |-> "zero"] ->
            <<"0","0","0","1","-","0","1","-","0","1"," ","0","0",":","0","0",":","0","0",
              " ","+","0","0","0","0"," ","U","T","C">>

\* d.String() of a source whose method set holds String
StringOf(o) ==
    CASE o.dyn = "json.Number"    -> o.val
      [] o.dyn = "time.Duration"  -> DurationString(o.val)
      [] o.dyn = "time.Weekday"   -> WeekdayName(o.val)
      [] o.dyn = "time.Month"     -> MonthName(o.val)
      [] o.dyn = "time.Time"      -> TimeString(o.val)
      [] o.dyn \in PbTypes        -> PbString(o)
      [] o.dyn = "Stringer"       -> o.val
      [] o.dyn = "StringerValuer" -> o.val.s
      [] o.dyn = "Level"          -> LevelName(o.val)

\* d.Value() of a source whose method set holds Value
ValueOf(o) == [v |-> o.val.v, err |-> IF o.val.err THEN LibErr("valuer") ELSE NoErr]

\* the outcome of a parse that returned r: the wrapped error, or the value
\* as it is, or converted to the signed or unsigned target
Parsed(E, o, r) ==
    IF r.err # "" THEN failedCastErrValue(E, o, LibErr(r.err)) ELSE Outcome(r.v, NoErr)

ParsedSigned(E, o, r) ==
    IF r.err # "" THEN failedCastErrValue(E, o, LibErr(r.err))
    ELSE Outcome(ToSigned(E, r.v), NoErr)

ParsedUnsigned(E, o, r) ==
    IF r.err # "" THEN failedCastErrValue(E, o, LibErr(r.err))
    ELSE Outcome(ToUnsigned(E, r.v), NoErr)

\* fault: the error of the nested conversion returned as it is
Wrapped_Bare(E, o, r) ==
    IF r.err # NoErr THEN Outcome(Zero(E), r.err) ELSE r

\* the outcome r of a nested conversion: its error wrapped, or r as it is
Wrapped(E, o, r) ==
    IF r.err # NoErr THEN failedCastErrValue(E, o, r.err) ELSE r

floatVE(E, o) ==
    LET v == indirectValue(o)
        k == Kind(v.dyn)
    IN  IF k = "bool" THEN Outcome(IF v.val THEN FloatUnit ELSE 0, NoErr)
        ELSE IF k \in IntTypes \cup UintTypes THEN Outcome(v.val * FloatUnit, NoErr)
        ELSE IF k \in FloatTypes THEN Outcome(v.val, NoErr)
        ELSE IF k \in {"string", "[]byte"}
        THEN Parsed(E, o, ParseFloat(v.val))
        ELSE failedCastValue(E, o)

RECURSIVE floatE(_, _)
floatE(E, o) ==
    LET d == o.dyn IN
    IF d = "nil" THEN Outcome(0, NoErr)
    ELSE IF d = "bool" THEN Outcome(IF o.val THEN FloatUnit ELSE 0, NoErr)
    ELSE IF d \in FloatTypes THEN Outcome(o.val, NoErr)
    ELSE IF d \in IntTypes \cup UintTypes THEN Outcome(o.val * FloatUnit, NoErr)
    ELSE IF d \in {"string", "[]byte"}
    THEN Parsed(E, o, ParseFloat(o.val))
    ELSE IF d = "json.Number"
    THEN Parsed(E, o, ParseFloat(o.val))
    ELSE IF d \in {"time.Weekday", "time.Month", "time.Duration"}
    THEN Outcome(o.val * FloatUnit, NoErr)
    ELSE IF d \in ValuerTypes
    THEN LET y == ValueOf(o) IN
         IF y.err # NoErr THEN failedCastErrValue(E, o, y.err)
         ELSE Wrapped(E, o, floatE(E, y.v))
    ELSE IF d = "*durationpb.Duration" THEN Outcome(o.val * FloatUnit, NoErr)
    ELSE IF d = "*wrapperspb.BoolValue" THEN Outcome(IF o.val THEN FloatUnit ELSE 0, NoErr)
    ELSE IF d \in FloatBoxes THEN Outcome(o.val, NoErr)
    ELSE IF d \in NumBoxes THEN Outcome(o.val * FloatUnit, NoErr)
    ELSE IF d \in TextBoxes
    THEN Parsed(E, o, ParseFloat(o.val))
    ELSE IF d \in StringerTypes
    THEN IF NilReceiver(o) THEN Panic ELSE
         Parsed(E, o, ParseFloat(StringOf(o)))
    ELSE floatVE(E, o)

\* FloatE: the public error-returning form
FloatE(E, o) == floatE(E, o)

toSignedValueE(E, o) ==
    LET v == indirectValue(o)
        k == Kind(v.dyn)
    IN  IF k = "bool" THEN Outcome(IF v.val THEN 1 ELSE 0, NoErr)
        ELSE IF k \in IntTypes \cup UintTypes THEN Outcome(ToSigned(E, v.val), NoErr)
        ELSE IF k \in FloatTypes THEN Outcome(ToSigned(E, Trunc(v.val)), NoErr)
        ELSE IF k \in {"string", "[]byte"}
        THEN ParsedSigned(E, o, ParseInt(trimZeroDecimal(v.val), 0))
        ELSE failedCastValue(E, o)

RECURSIVE intE(_, _)
intE(E, o) ==
    LET d == o.dyn IN
    IF d = "nil" THEN Outcome(0, NoErr)
    ELSE IF d = "bool" THEN Outcome(IF o.val THEN 1 ELSE 0, NoErr)
    ELSE IF d \in FloatTypes THEN Outcome(ToSigned(E, Trunc(o.val)), NoErr)
    ELSE IF d \in IntTypes \cup UintTypes THEN Outcome(ToSigned(E, o.val), NoErr)
    ELSE IF d \in {"string", "[]byte"}
    THEN ParsedSigned(E, o, ParseInt(trimZeroDecimal(o.val), 0))
    ELSE IF d = "json.Number"
    THEN ParsedSigned(E, o, ParseInt(o.val, 10))
    ELSE IF d \in {"time.Weekday", "time.Month", "time.Duration"}
    THEN Outcome(ToSigned(E, o.val), NoErr)
    ELSE IF d = "*durationpb.Duration" THEN Outcome(ToSigned(E, o.val), NoErr)
    ELSE IF d = "*timestamppb.Timestamp" THEN Outcome(ToSigned(E, o.val * 1000), NoErr)
    ELSE IF d = "*wrapperspb.BoolValue" THEN Outcome(IF o.val THEN 1 ELSE 0, NoErr)
    ELSE IF d \in FloatBoxes THEN Outcome(ToSigned(E, Trunc(o.val)), NoErr)
    ELSE IF d \in NumBoxes THEN Outcome(ToSigned(E, o.val), NoErr)
    ELSE IF d \in TextBoxes
    THEN ParsedSigned(E, o, ParseInt(trimZeroDecimal(o.val), 0))
    ELSE IF d \in ValuerTypes
    THEN LET y == ValueOf(o) IN
         IF y.err # NoErr THEN failedCastErrValue(E, o, y.err)
         ELSE Wrapped(E, o, intE(E, y.v))
    ELSE IF d \in StringerTypes
    THEN IF NilReceiver(o) THEN Panic ELSE
         ParsedSigned(E, o, ParseInt(trimZeroDecimal(StringOf(o)), 0))
    ELSE toSignedValueE(E, o)

\* IntE: the public error-returning form
IntE(E, o) == intE(E, o)

toUnsignedValueE(E, o) ==
    LET v == indirectValue(o)
        k == Kind(v.dyn)
    IN  IF k = "bool" THEN Outcome(IF v.val THEN 1 ELSE 0, NoErr)
        ELSE IF k \in IntTypes
        THEN (IF v.val < 0 THEN failedCastValue(E, o)
              ELSE Outcome(ToUnsigned(E, v.val), NoErr))
        ELSE IF k \in UintTypes THEN Outcome(ToUnsigned(E, v.val), NoErr)
        ELSE IF k \in FloatTypes
        THEN (IF v.val < 0 THEN failedCastValue(E, o)
              ELSE Outcome(ToUnsigned(E, Trunc(v.val)), NoErr))
        ELSE IF k \in {"string", "[]byte"}
        THEN ParsedUnsigned(E, o, ParseUint(trimZeroDecimal(v.val), 0))
        ELSE failedCastValue(E, o)

\* a signed source of the unsigned engine: negative is an error
\* fault: the magnitude of a negative value taken instead of an error
SignChecked_Abs(E, o, n) == Outcome(ToUnsigned(E, IF n < 0 THEN 0 - n ELSE n), NoErr)

SignChecked(E, o, n) ==
    IF n < 0 THEN failedCastValue(E, o) ELSE Outcome(ToUnsigned(E, n), NoErr)

\* the outcome of json.Number.Int64 that returned r: negative is an error
ParsedChecked(E, o, r) ==
    IF r.err # "" THEN failedCastErrValue(E, o, LibErr(r.err))
    ELSE SignChecked(E, o, r.v)

RECURSIVE uintE(_, _)
uintE(E, o) ==
    LET d == o.dyn IN
    IF d = "nil" THEN Outcome(0, NoErr)
    ELSE IF d = "bool" THEN Outcome(IF o.val THEN 1 ELSE 0, NoErr)
    ELSE IF d \in IntTypes THEN SignChecked(E, o, o.val)
    ELSE IF d \in UintTypes THEN Outcome(ToUnsigned(E, o.val), NoErr)
    ELSE IF d \in FloatTypes
    THEN (IF o.val < 0 THEN failedCastValue(E, o)
          ELSE Outcome(ToUnsigned(E, Trunc(o.val)), NoErr))
    ELSE IF d \in {"string", "[]byte"}
    THEN ParsedUnsigned(E, o, ParseUint(trimZeroDecimal(o.val), 0))
    ELSE IF d \in {"time.Duration", "time.Weekday", "time.Month"}
    THEN SignChecked(E, o, o.val)
    ELSE IF d = "json.Number"
    THEN ParsedChecked(E, o, ParseInt(o.val, 10))
    ELSE IF d = "*durationpb.Duration" THEN SignChecked(E, o, o.val)
    ELSE IF d = "*wrapperspb.BoolValue" THEN Outcome(IF o.val THEN 1 ELSE 0, NoErr)
    ELSE IF d \in {"*wrapperspb.Int64Value", "*wrapperspb.Int32Value"}
    THEN SignChecked(E, o, o.val)
    ELSE IF d \in {"*wrapperspb.UInt64Value", "*wrapperspb.UInt32Value"}
    THEN Outcome(ToUnsigned(E, o.val), NoErr)
    ELSE IF d \in FloatBoxes
    THEN (IF o.val < 0 THEN failedCastValue(E, o)
          ELSE Outcome(ToUnsigned(E, Trunc(o.val)), NoErr))
    ELSE IF d \in TextBoxes
    THEN ParsedUnsigned(E, o, ParseUint(trimZeroDecimal(o.val), 0))
    ELSE IF d \in ValuerTypes
    THEN LET y == ValueOf(o) IN
         IF y.err # NoErr THEN failedCastErrValue(E, o, y.err)
         ELSE Wrapped(E, o, uintE(E, y.v))
    ELSE IF d \in StringerTypes
    THEN IF NilReceiver(o) THEN Panic ELSE
         ParsedUnsigned(E, o, ParseUint(trimZeroDecimal(StringOf(o)), 0))
    ELSE toUnsignedValueE(E, o)

\* UintE: the public error-returning form
UintE(E, o) == uintE(E, o)

boolVE(E, o) ==
    LET v == indirectValue(o)
        k == Kind(v.dyn)
    IN  IF k = "bool" THEN Outcome(v.val, NoErr)
        ELSE IF k \in IntTypes \cup UintTypes \cup FloatTypes
        THEN Outcome(v.val # 0, NoErr)
        ELSE IF k \in {"string", "[]byte"}
        THEN Parsed(E, o, ParseBool(v.val))
        ELSE failedCastValue(E, o)

\* a numeric source of the boolean engine, n its FloatE outcome: n != 0
NonZero(E, o, n) ==
    IF n.err # NoErr THEN failedCastErrValue(E, o, n.err)
    ELSE Outcome(n.val # 0, NoErr)

RECURSIVE boolE(_, _)
boolE(E, o) ==
    LET d == o.dyn IN
    IF d = "nil" THEN Outcome(FALSE, NoErr)
    ELSE IF d = "bool" THEN Outcome(o.val, NoErr)
    ELSE IF d \in {"string", "[]byte"}
    THEN Parsed(E, o, ParseBool(o.val))
    ELSE IF d = "*wrapperspb.BoolValue" THEN Outcome(o.val, NoErr)
    ELSE IF d \in TextBoxes
    THEN Parsed(E, o, ParseBool(o.val))
    ELSE IF d \in FloatTypes \cup IntTypes \cup UintTypes \cup {"json.Number"} \cup NumBoxes
    THEN NonZero(E, o, FloatE("float64", o))
    ELSE IF d \in ValuerTypes
    THEN LET y == ValueOf(o) IN
         IF y.err # NoErr THEN failedCastErrValue(E, o, y.err)
         ELSE Wrapped(E, o, boolE(E, y.v))
    ELSE IF d \in StringerTypes
    THEN IF NilReceiver(o) THEN Panic ELSE
         Parsed(E, o, ParseBool(StringOf(o)))
    ELSE boolVE(E, o)

\* BoolE: the public error-returning form
BoolE(E, o) == boolE(E, o)

stringVE(E, o) ==
    LET v == indirectValue(o)
        k == Kind(v.dyn)
    IN  IF k = "bool" THEN Outcome(FormatBool(v.val), NoErr)
        ELSE IF k \in IntTypes \cup UintTypes THEN Outcome(FormatInt(v.val), NoErr)
        ELSE IF k \in FloatTypes THEN Outcome(FormatWide(k, v.val), NoErr)
        ELSE IF k \in {"string", "[]byte"} THEN Outcome(v.val, NoErr)
        ELSE failedCastValue(E, o)

\* time.Time.Format(DefaultTimeFormat) of the instants the model generates
FormatDefault(t) ==
    CASE t = [unix |-> 1672574400, loc |-> "UTC"] ->
            <<"2","0","2","3","-","0","1","-","0","1","T","1","2",":","0","0",":","0","0","Z">>
      [] t = [unix |-> 0, loc |-> "zero"] ->
            <<"0","0","0","1","-","0","1","-","0","1","T","0","0",":","0","0",":","0","0","Z">>
      [] t = [unix |-> 0, loc |-> "UTC"] ->
            <<"1","9","7","0","-","0","1","-","0","1","T","0","0",":","0","0",":","0","0","Z">>
      [] t = [unix |-> 5, loc |-> "UTC"] ->
            <<"1","9","7","0","-","0","1","-","0","1","T","0","0",":","0","0",":","0","5","Z">>

RECURSIVE stringE(_, _)
stringE(E, o) ==
    LET d == o.dyn IN
    IF d = "nil" THEN Outcome(<<>>, NoErr)
    ELSE IF d = "bool" THEN Outcome(FormatBool(o.val), NoErr)
    ELSE IF d \in FloatTypes THEN Outcome(FormatFloat(o.val), NoErr)
    ELSE IF d \in IntTypes \cup UintTypes THEN Outcome(FormatInt(o.val), NoErr)
    ELSE IF d \in {"string", "[]byte"} THEN Outcome(o.val, NoErr)
    ELSE IF d = "json.Number" THEN Outcome(o.val, NoErr)
    ELSE IF d \in {"time.Weekday", "time.Month", "time.Duration"}
    THEN Outcome(StringOf(o), NoErr)
    ELSE IF d = "time.Time" THEN Outcome(FormatDefault(o.val), NoErr)
    ELSE IF d = "*durationpb.Duration" THEN Outcome(DurationString(o.val), NoErr)
    ELSE IF d = "*timestamppb.Timestamp"
    THEN Outcome(FormatDefault([unix |-> o.val, loc |-> "UTC"]), NoErr)
    ELSE IF d = "*wrapperspb.BoolValue" THEN Outcome(FormatBool(o.val), NoErr)
    ELSE IF d \in FloatBoxes THEN Outcome(FormatFloat(o.val), NoErr)
    ELSE IF d \in NumBoxes THEN Outcome(FormatInt(o.val), NoErr)
    ELSE IF d \in TextBoxes THEN Outcome(o.val, NoErr)
    ELSE IF d \in ValuerTypes
    THEN LET y == ValueOf(o) IN
         IF y.err # NoErr THEN failedCastErrValue(E, o, y.err)
         ELSE Wrapped(E, o, stringE(E, y.v))
    ELSE IF d \in StringerTypes
    THEN IF NilReceiver(o) THEN Panic ELSE Outcome(StringOf(o), NoErr)
    ELSE stringVE(E, o)

\* StringE: the public error-returning form
StringE(E, o) == stringE(E, o)

durationVE(o) ==
    LET v == indirectValue(o)
        k == Kind(v.dyn)
        E == "time.Duration"
    IN  IF k \in IntTypes \cup UintTypes THEN Outcome(v.val, NoErr)
        ELSE IF k \in FloatTypes THEN Outcome(Trunc(v.val), NoErr)
        ELSE IF k \in {"string", "[]byte"}
        THEN Parsed(E, o, ParseDuration(v.val))
        ELSE failedCastValue(E, o)

RECURSIVE durationE(_)
durationE(o) ==
    LET d == o.dyn
        E == "time.Duration"
    IN
    IF d = "nil" THEN Outcome(0, NoErr)
    ELSE IF d \in {"string", "[]byte"}
    THEN Parsed(E, o, ParseDuration(o.val))
    ELSE IF d \in StringerTypes
    THEN IF NilReceiver(o) THEN Panic ELSE
         Parsed(E, o, ParseDuration(StringOf(o)))
    ELSE IF d = "time.Duration" THEN Outcome(o.val, NoErr)
    ELSE IF d \in ValuerTypes
    THEN LET y == ValueOf(o) IN
         IF y.err # NoErr THEN failedCastErrValue(E, o, y.err)
         ELSE Wrapped(E, o, durationE(y.v))
    ELSE IF d = "*durationpb.Duration" THEN Outcome(o.val, NoErr)
    ELSE IF d \in TextBoxes
    THEN Parsed(E, o, ParseDuration(o.val))
    ELSE IF d \in FloatTypes \cup IntTypes \cup UintTypes \cup {"json.Number"} \cup NumBoxes
    THEN Wrapped(E, o, intE(E, o))
    ELSE durationVE(o)

\* DurationE: the public error-returning form
DurationE(o) == durationE(o)

-----------------------------------------------------------------------------
(* The timestamp engine.  A time is [unix |-> seconds since the epoch,     *)
(* loc |-> the name of its location].                                      *)

DefaultTimeFormat == "RFC3339"

TimeFormats ==
    << "Layout", "ANSIC", "UnixDate", "RubyDate", "RFC822", "RFC822Z", "RFC850",
       "RFC1123", "RFC1123Z", "RFC3339", "RFC3339Nano", "Kitchen",
       "Stamp", "StampMilli", "StampMicro", "StampNano",
       "DateTime", "DateOnly", "TimeOnly",
       "2006-01-02 15:04:05Z07:00", "02 Jan 2006", "2006-01-02 15:04:05 -07:00",
       "2006-01-02 15:04:05 -0700", "2006-01-02T15:04:05",
       "2006-01-02 15:04:05.999999999 -0700 MST", "2006-01-02T15:04:05-0700",
       "2006-01-02 15:04:05Z0700" >>

\* the texts of the model that some layout accepts: the layouts that accept
\* it, its wall-clock reading as seconds, and whether it names its zone
TimeTexts ==
    { [text |-> <<"2","0","2","3","-","0","1","-","0","1","T","1","2",":","0","0",":","0","0","Z">>,
       layouts |-> {"RFC3339", "RFC3339Nano"}, wall |-> 1672574400, zoned |-> TRUE],
      [text |-> <<"2","0","2","3","-","0","1","-","0","1"," ","1","2",":","0","0",":","0","0">>,
       layouts |-> {"DateTime"}, wall |-> 1672574400, zoned |-> FALSE],
      [text |-> <<"2","0","2","3","-","0","1","-","0","1">>,
       layouts |-> {"DateOnly"}, wall |-> 1672531200, zoned |-> FALSE],
      [text |-> <<"2","0","2","3","-","0","1","-","0","1","T","1","2",":","0","0",":","0","0">>,
       layouts |-> {"2006-01-02T15:04:05"}, wall |-> 1672574400, zoned |-> FALSE] }

\* the offset from UTC of a location, in seconds
LocalOffset == 60 * 60
Offset(loc) == IF loc = "Local" THEN LocalOffset ELSE 0

\* time.ParseInLocation(layout, text, loc).  For text without a zone the
\* result is built by time.Date, which panics on a nil location.
ParseInLocation(layout, text, loc) ==
    IF \E t \in TimeTexts : t.text = text /\ layout \in t.layouts
    THEN LET t == CHOOSE t \in TimeTexts : t.text = text
         IN  IF t.zoned
             THEN [ok |-> TRUE, panic |-> FALSE, t |-> [unix |-> t.wall, loc |-> "UTC"]]
             ELSE IF loc = "nil"
             THEN [ok |-> FALSE, panic |-> TRUE, t |-> Zero("time.Time")]
             ELSE [ok |-> TRUE, panic |-> FALSE,
                   t |-> [unix |-> t.wall - Offset(loc), loc |-> loc]]
    ELSE [ok |-> FALSE, panic |-> FALSE, t |-> Zero("time.Time")]

\* the loop over TimeFormats from index i on: the first layout that parses wins
RECURSIVE parseFormats(_, _, _, _)

\* one round of the loop, r the outcome of time.ParseInLocation
parseFormat(o, text, location, i, r) ==
    IF r.panic THEN Panic
    ELSE IF ~r.ok THEN parseFormats(o, text, location, i + 1)
    ELSE Outcome(r.t, NoErr)

parseFormats(o, text, location, i) ==
    IF i > Len(TimeFormats) THEN failedCastValue("time.Time", o)
    ELSE parseFormat(o, text, location, i,
                     ParseInLocation(TimeFormats[i], text, location))

\* fault: the number taken for milliseconds since the epoch
Unix_Millis(E, v) ==
    IF v.err # NoErr THEN Outcome(Zero(E), v.err)
    ELSE Outcome([unix |-> v.val \div 1000, loc |-> "Local"], NoErr)

\* a numeric source of the time engine, v its IntE outcome: time.Unix(v, 0)
Unix(E, v) ==
    IF v.err # NoErr THEN Outcome(Zero(E), v.err)
    ELSE Outcome([unix |-> v.val, loc |-> "Local"], NoErr)

RECURSIVE timeInLocationE(_, _)
timeInLocationE(o, location) ==
    LET d == o.dyn
        E == "time.Time"
    IN
    IF d = "nil" THEN Outcome(Zero(E), NoErr)
    ELSE IF d \in {"string", "[]byte"} THEN parseFormats(o, o.val, location, 1)
    ELSE IF d = "time.Time" THEN Outcome(o.val, NoErr)
    ELSE IF d \in ValuerTypes
    THEN LET y == ValueOf(o) IN
         IF y.err # NoErr THEN failedCastErrValue(E, o, y.err)
         ELSE Wrapped(E, o, timeInLocationE(y.v, location))
    ELSE IF d = "timestamppb.Timestamp" THEN Outcome([unix |-> o.val, loc |-> "UTC"], NoErr)
    ELSE IF d \in TextBoxes
    THEN Wrapped(E, o, timeInLocationE(
                     Mk(IF d = "*wrapperspb.StringValue" THEN "string" ELSE "[]byte", o.val),
                     location))
    ELSE IF d \in FloatTypes \cup IntTypes \cup UintTypes
              \cup {"json.Number", "*durationpb.Duration"} \cup NumBoxes
    THEN Unix(E, IntE("int64", o))
    ELSE failedCastValue(E, o)

\* TimeInLocationE / TimeE: the public error-returning forms
TimeInLocationE(o, location) == timeInLocationE(o, location)
TimeE(o) == TimeInLocationE(o, "UTC")

-----------------------------------------------------------------------------
(* The container engines.  A converter is a pair <<engine, target type>>;  *)
(* the element type of the target container is the converter's target.     *)
(* A sequence source is [dyn |-> "slice" or "array", et |-> its element    *)
(* type, val |-> its elements]; a mapping source is [dyn |-> "map",        *)
(* val |-> a function from key texts to values].                           *)

RECURSIVE Apply(_, _)

\* the element type E of the target S ~[]E
ElemType(to) == to[2]

\* the printable bytes from the space to the underscore, and from "a" on
Printable ==
    << " ", "!", "\"", "#", "$", "%", "&", "'", "(", ")", "*", "+", ",", "-", ".", "/",
       "0", "1", "2", "3", "4", "5", "6", "7", "8", "9", ":", ";", "<", "=", ">", "?", "@",
       "A", "B", "C", "D", "E", "F", "G", "H", "I", "J", "K", "L", "M", "N", "O", "P", "Q",
       "R", "S", "T", "U", "V", "W", "X", "Y", "Z", "[", "\\", "]", "^", "_" >>
Lower ==
    << "a", "b", "c", "d", "e", "f", "g", "h", "i", "j", "k", "l", "m", "n", "o", "p", "q",
       "r", "s", "t", "u", "v", "w", "x", "y", "z", "{", "|", "}", "~" >>

\* the byte a character of a text is
ByteCode(c) ==
    IF \E i \in DOMAIN Printable : Printable[i] = c
    THEN 31 + (CHOOSE i \in DOMAIN Printable : Printable[i] = c)
    ELSE 96 + (CHOOSE i \in DOMAIN Lower : Lower[i] = c)

\* reflect.Value.Index(i).Interface() for every i
Elems(o) ==
    IF Kind(o.dyn) = "[]byte"
    THEN [i \in 1..Len(o.val) |-> Mk("uint8", ByteCode(o.val[i]))]
    ELSE o.val

\* the static element type of a sequence source
ElemTypeOf(o) == IF o.dyn = "[]byte" THEN "uint8" ELSE IF o.dyn = "slice" THEN o.et ELSE "-"

\* an element as it sits in a sequence of element type E
Stored(E, v) == IF E = "any" THEN v ELSE v.val

\* fault: the source returned as it is, its backing array shared
Clone_Alias(E, o) ==
    [nil |-> FALSE, ref |-> "input",
     elems |-> [i \in 1..Len(Elems(o)) |-> Stored(E, Elems(o)[i])]]

\* slices.Clone: a new backing array holding the same elements
Clone(E, o) ==
    [nil |-> FALSE, ref |-> "fresh",
     elems |-> [i \in 1..Len(Elems(o)) |-> Stored(E, Elems(o)[i])]]

RECURSIVE toSliceLoop(_, _, _, _)

\* fault: the elements converted so far returned with the error
toSliceStep_Partial(to, vals, i, res, r) ==
    IF r.panic THEN r
    ELSE IF r.err # NoErr
    THEN Outcome([nil |-> FALSE, ref |-> "fresh", elems |-> res], r.err)
    ELSE toSliceLoop(to, vals, i + 1, Append(res, r.val))

\* fault: the converted element put in front of the earlier ones
toSliceStep_Prepend(to, vals, i, res, r) ==
    IF r.panic THEN r
    ELSE IF r.err # NoErr THEN Outcome(Zero("slice"), r.err)
    ELSE toSliceLoop(to, vals, i + 1, <<r.val>> \o res)

\* one round of the loop of toSliceE, r the outcome of to(value.Index(i).Interface())
toSliceStep(to, vals, i, res, r) ==
    IF r.panic THEN r
    ELSE IF r.err # NoErr THEN Outcome(Zero("slice"), r.err)
    ELSE toSliceLoop(to, vals, i + 1, Append(res, r.val))

\* the loop of toSliceE from index i on, res the elements converted so far
toSliceLoop(to, vals, i, res) ==
    IF i > Len(vals)
    THEN Outcome([nil |-> FALSE, ref |-> "fresh", elems |-> res], NoErr)
    ELSE toSliceStep(to, vals, i, res, Apply(to, vals[i]))

toSliceE(to, o) ==
    IF o.dyn = "nil" THEN Outcome(Zero("slice"), NoErr)
    ELSE IF ElemTypeOf(o) = ElemType(to) THEN Outcome(Clone(ElemType(to), o), NoErr)
    ELSE IF Kind(o.dyn) \in {"slice", "array", "[]byte"}
    THEN toSliceLoop(to, Elems(o), 1, <<>>)
    ELSE failedCastValue("slice", o)

\* SliceE, Slice and the typed KSE forms
SliceE(to, o) == toSliceE(to, o)

\* to(o), key(o), val(o): the call of a converter; the value converter of a
\* mapping may be a sequence form such as StringSE
Apply(to, o) ==
    CASE to[1] = "BoolE"     -> BoolE(to[2], o)
      [] to[1] = "IntE"      -> IntE(to[2], o)
      [] to[1] = "UintE"     -> UintE(to[2], o)
      [] to[1] = "FloatE"    -> FloatE(to[2], o)
      [] to[1] = "StringE"   -> StringE(to[2], o)
      [] to[1] = "DurationE" -> DurationE(o)
      [] to[1] = "Any"       -> Outcome(o, NoErr)
      [] to[1] = "SliceE"    -> SliceE(to[3], o)

\* encoding/json.Unmarshal of the model's JSON texts into a map[K]V:
\* the object each text denotes, its values as Go decodes them into V
JsonNull == <<"n","u","l","l">>
JsonEmpty == <<"{","}">>
JsonKeyText == <<"{","\"","k","\"",":","\"","1","\"","}">>
JsonKeyNum == <<"{","\"","k","\"",":","1","}">>

Unmarshal(text, K, V) ==
    LET obj(v) == [nil |-> FALSE, elems |-> [k \in { <<"k">> } |-> v]]
    IN  IF text = JsonNull THEN [v |-> Zero("map"), err |-> ""]
        ELSE IF text = JsonEmpty
        THEN [v |-> [nil |-> FALSE, elems |-> [k \in {} |-> 0]], err |-> ""]
        ELSE IF text \in {JsonKeyText, JsonKeyNum} /\ K \in IntTypes \cup UintTypes
        THEN \* the key "k" is no number
             [v |-> Zero("map"), err |-> "unmarshal type"]
        ELSE IF text = JsonKeyText
        THEN (IF V = "string" THEN [v |-> obj(<<"1">>), err |-> ""]
              ELSE IF V = "any" THEN [v |-> obj(Mk("string", <<"1">>)), err |-> ""]
              ELSE [v |-> Zero("map"), err |-> "unmarshal type"])
        ELSE IF text = JsonKeyNum
        THEN (IF V = "float64" THEN [v |-> obj(FloatUnit), err |-> ""]
              ELSE IF V = "any" THEN [v |-> obj(Mk("float64", FloatUnit)), err |-> ""]
              ELSE IF V \in IntTypes \cup UintTypes THEN [v |-> obj(1), err |-> ""]
              ELSE [v |-> Zero("map"), err |-> "unmarshal type"])
        ELSE [v |-> Zero("map"), err |-> "json syntax"]

\* reflect.Value.SetMapIndex(k, v): a nil interface value deletes the key
SetMapIndex(res, V, k, v) ==
    IF V = "any" /\ v.dyn = "nil"
    THEN [x \in (DOMAIN res) \ {k} |-> res[x]]
    ELSE [x \in (DOMAIN res) \cup {k} |-> IF x = k THEN v ELSE res[x]]

RECURSIVE mapELoop(_, _, _, _, _, _)

\* one round of the loop of mapE, rs the outcomes of the two converters
mapEStep(o, key, val, order, i, res, rs) ==
    IF rs[key].panic THEN rs[key]
    ELSE IF rs[key].err # NoErr THEN Outcome(Zero("map"), rs[key].err)
    ELSE IF rs[val].panic THEN rs[val]
    ELSE IF rs[val].err # NoErr THEN Outcome(Zero("map"), rs[val].err)
    ELSE mapELoop(o, key, val, order, i + 1,
                  SetMapIndex(res, ElemType(val), rs[key].val, rs[val].val))

\* the loop of mapE over MapKeys() in the order the runtime yields them; both
\* converters are given the entry's value, oValue.MapIndex(keyVal).Interface()
mapELoop(o, key, val, order, i, res) ==
    IF i > Len(order) THEN Outcome([nil |-> FALSE, elems |-> res], NoErr)
    ELSE mapEStep(o, key, val, order, i, res,
                  [c \in {key, val} |-> Apply(c, o.val[order[i]])])

\* fault: the text decoded into a map[string]any first and its entries then
\* given to the converters
mapE_Converting(o, key, val, order) ==
    IF o.dyn = "nil" THEN Outcome(Zero("map"), NoErr)
    ELSE IF o.dyn = "string"
    THEN LET r == Unmarshal(o.val, "string", "any")
         IN  IF r.err # "" THEN failedCastErrValue("map", o, LibErr(r.err))
             ELSE IF r.v.nil THEN Outcome(r.v, NoErr)
             ELSE mapELoop([dyn |-> "map", kt |-> "string", vt |-> "any", val |-> r.v.elems],
                           key, val,
                           IF DOMAIN r.v.elems = {} THEN <<>> ELSE << <<"k">> >>,
                           1, [k \in {} |-> 0])
    ELSE IF Kind(o.dyn) # "map" THEN failedCastValue("map", o)
    ELSE mapELoop(o, key, val, order, 1, [k \in {} |-> 0])

\* fault: mapE without its nil guard, a nil source taken for a non-map
mapE_NoNilGuard(o, key, val, order) ==
    IF o.dyn = "string"
    THEN LET r == Unmarshal(o.val, ElemType(key), ElemType(val))
         IN  IF r.err # "" THEN failedCastErrValue("map", o, LibErr(r.err))
             ELSE Outcome(r.v, NoErr)
    ELSE IF Kind(o.dyn) # "map" THEN failedCastValue("map", o)
    ELSE mapELoop(o, key, val, order, 1, [k \in {} |-> 0])

mapE(o, key, val, order) ==
    IF o.dyn = "nil" THEN Outcome(Zero("map"), NoErr)
    ELSE IF o.dyn = "string"
    THEN LET r == Unmarshal(o.val, ElemType(key), ElemType(val))
         IN  IF r.err # "" THEN failedCastErrValue("map", o, LibErr(r.err))
             ELSE Outcome(r.v, NoErr)
    ELSE IF Kind(o.dyn) # "map" THEN failedCastValue("map", o)
    ELSE mapELoop(o, key, val, order, 1, [k \in {} |-> 0])

\* MapE and the typed String*MapE forms
MapE(o, key, val, order) == mapE(o, key, val, order)

-----------------------------------------------------------------------------
(* The error-suppressing forms: v, _ := KE(o); return v.                   *)

Suppress(r) == IF r.panic THEN r ELSE Outcome(r.val, NoErr)

Bool(E, o) == Suppress(BoolE(E, o))
\* Int in the source; the name is taken by the integers here
Int_(E, o) == Suppress(IntE(E, o))
Uint(E, o) == Suppress(UintE(E, o))
Float(E, o) == Suppress(FloatE(E, o))
String(E, o) == Suppress(StringE(E, o))
Duration(o) == Suppress(DurationE(o))
Time(o) == Suppress(TimeE(o))
TimeInLocation(o, location) == Suppress(TimeInLocationE(o, location))
\* the typed suppressing sequence forms BoolS, IntS, UintS, ..., AnySlice
KS(to, o) == Suppress(toSliceE(to, o))
\* the typed suppressing mapping forms StringAnyMap, StringIntMap, ...
StringKMap(o, val, order) == Suppress(mapE(o, <<"StringE", "string">>, val, order))

-----------------------------------------------------------------------------
(* The sources the calls are given.                                        *)

Lit_true == <<"t","r","u","e">>
Lit_false == <<"f","a","l","s","e">>
Lit_key == <<"k","e","y">>
Lit_42 == <<"4","2">>
Lit_300 == <<"3","0","0">>
\* a decimal number of 21 digits, beyond every integer type
Lit_huge == [i \in 1..21 |-> "9"]

BoolTexts ==
    { <<"1">>, <<"t">>, <<"T">>, <<"T","R","U","E">>, Lit_true, <<"T","r","u","e">>,
      <<"0">>, <<"f">>, <<"F">>, <<"F","A","L","S","E">>, Lit_false, <<"F","a","l","s","e">> }

\* near misses of the boolean literals, and other text
NonBoolTexts ==
    { <<"n","o","t","a","b","o","o","l">>, <<"t","R","U","E">>, <<"t","r","u","E">>,
      <<"f","A","L","S","E">>, <<"y","e","s">>, <<"n","o">>, <<"2">>, <<"t","r","u">>,
      <<"t","r","u","e"," ">>, <<"Y">>, <<"o","n">> }

NormalizerTexts ==
    { <<"1","0",".","0","0">>, <<"5",".","1","0">>, <<"3",".","1","4">>,
      <<"3",".","0">>, <<"1","0","0">> }

DurationTexts == { <<"2","s">>, <<"1",".","5","s">>, <<"5","0","0","m","s">>, <<"1","5","n","s">> }

ExtraTexts ==
    BoolTexts \cup NonBoolTexts \cup NormalizerTexts \cup DurationTexts
    \cup { t.text : t \in TimeTexts }
    \cup { JsonNull, JsonEmpty, JsonKeyText, JsonKeyNum, Lit_42, Lit_key, Lit_300 }

Generated == UNION { [1..k -> Alphabet] : k \in 0..MaxLen }
Texts == Generated \cup ExtraTexts

TextTypes == {"string", "[]byte", "json.Number", "*wrapperspb.StringValue",
              "*wrapperspb.BytesValue", "MyString", "MyBytes", "Stringer"}

Half == FloatUnit \div 2

IntValsOf(t) ==
    CASE t = "int8"  -> {0 - 128, 0 - 1, 0, 1, 127}
      [] t = "int16" -> {0 - 32768, 0 - 129, 0, 128, 32767}
      [] t \in {"int", "int32", "int64"} -> {0 - 32769, 0 - 1, 0, 1, 256, 65536}
      [] t = "uint8" -> {0, 1, 255}
      [] t = "uint16" -> {0, 256, 65535}
      [] t \in {"uint", "uint32", "uint64"} -> {0, 1, 65536}

FloatVals == {0 - 3 * Half, 0 - Half, 0, Half, 3 * Half, 255 * Half}

Numbers ==
    { Mk(t, n) : t \in {"int8"}, n \in IntValsOf("int8") }
    \cup { Mk(t, n) : t \in {"int16"}, n \in IntValsOf("int16") }
    \cup { Mk(t, n) : t \in {"int", "int32", "int64"}, n \in IntValsOf("int") }
    \cup { Mk(t, n) : t \in {"uint8"}, n \in IntValsOf("uint8") }
    \cup { Mk(t, n) : t \in {"uint16"}, n \in IntValsOf("uint16") }
    \cup { Mk(t, n) : t \in {"uint", "uint32", "uint64"}, n \in IntValsOf("uint") }
    \cup { Mk(t, f) : t \in FloatTypes, f \in FloatVals }
    \cup { Mk("float32", Tenth) }

KnownTime == [unix |-> 1672574400, loc |-> "UTC"]

Boxes ==
    { Mk("*wrapperspb.BoolValue", b) : b \in BOOLEAN }
    \cup { Mk(t, n) : t \in {"*wrapperspb.Int64Value", "*wrapperspb.Int32Value"},
                      n \in {0 - 1, 0, 5} }
    \cup { Mk(t, n) : t \in {"*wrapperspb.UInt64Value", "*wrapperspb.UInt32Value"},
                      n \in {0, 5} }
    \cup { Mk(t, f) : t \in FloatBoxes, f \in {0 - Half, 0, 3 * Half} }
    \cup { Mk("*durationpb.Duration", n) : n \in {0 - 1, 0, 1500} }
    \cup { Mk("*timestamppb.Timestamp", n) : n \in {0, 5} }
    \cup { Mk("timestamppb.Timestamp", 5) }

TimeTypes ==
    { Mk("time.Duration", n) : n \in {0 - 1, 0, 1, 1500} }
    \cup { Mk("time.Weekday", n) : n \in {0 - 1, 0, 6} }
    \cup { Mk("time.Month", n) : n \in {0 - 1, 0, 1, 3} }
    \cup { Mk("time.Time", KnownTime) }

Named ==
    { Mk("MyInt", n) : n \in {0 - 1, 0, 5} }
    \cup { Mk("MyUint", n) : n \in {0, 5} }
    \cup { Mk("MyFloat", f) : f \in {0 - Half, 0, 3 * Half} }
    \cup { Mk("MyFloat32", f) : f \in {Half, Tenth} }
    \cup { Mk("MyBool", b) : b \in BOOLEAN }
    \cup { Mk("Level", n) : n \in {0, 1} }
    \cup { Mk("MyStruct", 0) }

\* what a Valuer yields, and what a generated pointer points to
Yielded ==
    { Nil, Mk("int", 0 - 1), Mk("int64", 5), Mk("float64", 0 - Half), Mk("bool", TRUE),
      Mk("string", <<"1">>), Mk("string", <<"-", "1">>), Mk("string", <<"a">>),
      Mk("[]byte", <<"1">>), Mk("time.Time", KnownTime), Mk("MyStruct", 0) }

Pointees ==
    { Mk("int", 0 - 1), Mk("int", 5), Mk("float64", 0 - Half), Mk("bool", TRUE),
      Mk("string", <<"1">>), Mk("MyInt", 0 - 1), Mk("MyStruct", 0), Mk("nilptr", 0),
      Mk("float32", Tenth) }

Capable ==
    { Mk("Valuer", [v |-> y, err |-> e]) : y \in Yielded, e \in BOOLEAN }
    \cup { Mk("StringerValuer", [s |-> t, v |-> y, err |-> FALSE]) :
              t \in { <<"1">>, <<"a">> }, y \in { Mk("int", 0), Mk("string", <<"-", "1">>) } }

Pointers ==
    { Mk("ptr", p) : p \in Pointees }
    \cup { Mk("ptr", Mk("ptr", p)) : p \in { Mk("int", 0 - 1), Mk("nilptr", 0) } }
    \cup { Mk("nilptr", 0), Mk("(*time.Duration)(nil)", 0) }

TextSources == { Mk(t, s) : t \in TextTypes, s \in Texts }

ScalarSources ==
    {Nil} \cup { Mk("bool", b) : b \in BOOLEAN } \cup Numbers \cup TextSources
    \cup Boxes \cup TimeTypes \cup Named \cup Capable \cup Pointers

\* integers too large for the fixed-point floats: seconds and nanoseconds
BigSources == { Mk("int64", 2000000000), Mk("int64", 1672574400) }
\* integer text too large for the integer parsers
HugeSources == { Mk("string", Lit_huge), Mk("[]byte", Lit_huge) }

-----------------------------------------------------------------------------
(* Sequence and mapping sources, and the converters handed to SliceE, MapE *)

SeqOf(S) == UNION { [1..n -> S] : n \in 0..MaxSeq }

SliceOf(et, S) == { [dyn |-> "slice", et |-> et, val |-> v] : v \in SeqOf(S) }
ArrayOf(et, S) == { [dyn |-> "array", et |-> et, val |-> v] : v \in SeqOf(S) }

StringElems == { Mk("string", t) : t \in { <<"1">>, <<"a">>, <<"-", "1">>, Lit_true } }
IntElems    == { Mk("int", n) : n \in {0 - 1, 1, 300} }
AnyElems    == { Nil, Mk("int", 1), Mk("string", <<"a">>), Mk("(*time.Duration)(nil)", 0) }
LevelElems  == { Mk("Level", n) : n \in {0, 1} }

SliceSources ==
    {Nil, Mk("int", 5), Mk("string", <<"1">>)}
    \cup SliceOf("string", StringElems) \cup ArrayOf("string", StringElems)
    \cup SliceOf("int", IntElems) \cup SliceOf("any", AnyElems)
    \cup SliceOf("Level", LevelElems)
    \cup { Mk("[]byte", t) : t \in SeqOf({"0", "1", "a"}) }

Converters ==
    { <<"IntE", "int">>, <<"IntE", "int8">>, <<"IntE", "Level">>, <<"UintE", "uint8">>,
      <<"FloatE", "float64">>, <<"BoolE", "bool">>, <<"StringE", "string">>,
      <<"DurationE", "time.Duration">>, <<"Any", "any">> }

StringSE == <<"SliceE", "[]string", <<"StringE", "string">>>>

MapKeys == { Lit_key, <<"k">>, <<"1">> }

MapOf(vt, S) ==
    { [dyn |-> "map", kt |-> "string", vt |-> vt, val |-> m] :
        m \in UNION { [D -> S] : D \in { X \in SUBSET MapKeys : Cardinality(X) <= MaxSeq } } }

ReadmeSliceMap ==
    [dyn |-> "map", kt |-> "string", vt |-> "[]string",
     val |-> [k \in {Lit_key} |->
                [dyn |-> "slice", et |-> "string",
                 val |-> << Mk("string", <<"v", "1">>), Mk("string", <<"v", "2">>) >>]]]

MapSources ==
    {Nil, Mk("int", 5), Mk("[]byte", JsonEmpty)}
    \cup { Mk("string", t) : t \in {JsonNull, JsonEmpty, JsonKeyText, JsonKeyNum, <<"a">>} }
    \cup MapOf("string", { Mk("string", t) : t \in {Lit_42, <<"1">>, <<"a">>} })
    \cup MapOf("any", { Nil, Mk("int", 1), Mk("string", <<"k">>) })
    \cup { ReadmeSliceMap }

KeyConverters == { <<"StringE", "string">>, <<"IntE", "int">> }
ValConverters ==
    { <<"StringE", "string">>, <<"IntE", "int">>, <<"BoolE", "bool">>, <<"Any", "any">>,
      StringSE }

\* the orders in which reflect.Value.MapKeys may yield the keys of o
Orders(o) ==
    IF o.dyn # "map" THEN { <<>> }
    ELSE { f \in [1..Cardinality(DOMAIN o.val) -> DOMAIN o.val] :
             \A i, j \in DOMAIN f : i # j => f[i] # f[j] }

\* the backing array of a sequence source, as its elements are stored
Backing(o) ==
    IF Kind(o.dyn) \in {"slice", "[]byte"}
    THEN [i \in 1..Len(Elems(o)) |-> Stored(ElemTypeOf(o), Elems(o)[i])]
    ELSE <<>>

\* a value of element type E other than v
Other(E, v) ==
    CASE E = "string" -> Append(v, "!")
      [] E = "bool"   -> ~v
      [] E = "any"    -> Mk("string", <<"!">>)
      [] OTHER        -> v + 1

-----------------------------------------------------------------------------
(* The program: one call of an entry point, then writes through the        *)
(* sequences involved.  The goroutines of a concurrent caller have their   *)
(* own variables: pc and frame hold each goroutine's position and locals,  *)
(* heap the memory they share.                                             *)

VARIABLES op, src, arg, out, inMem, outMem, pc, frame, heap

vars == << op, src, arg, out, inMem, outMem, pc, frame, heap >>

\* the variables of the single caller, and those of the goroutines
single == << op, src, arg, out, inMem, outMem >>
goroutines == << pc, frame, heap >>

NoArg == [E |-> "-", location |-> "-", to |-> <<"-", "-">>, key |-> <<"-", "-">>,
          val |-> <<"-", "-">>, order |-> <<>>]

\* the goroutines of the concurrent caller
Procs == {"g1", "g2"}

\* the locals of a goroutine: the engine it called, the source and arguments
\* it passed, its loop index, the result it is building, the address of the
\* result it allocated (0: none) and the outcome it returned
NoFrame == [engine |-> "-", o |-> Nil, a |-> NoArg, i |-> 0, res |-> <<>>, at |-> 0,
            ret |-> Outcome(0, NoErr)]

\* the memory all goroutines share: the source o, the package variables
\* TimeFormats and DefaultTimeFormat, and the count of allocations made
Heap(o) == [o |-> o, TimeFormats |-> TimeFormats, DefaultTimeFormat |-> DefaultTimeFormat,
            allocs |-> 0]

\* no goroutine has called
Idle(o) ==
    /\ pc = [p \in Procs |-> "idle"]
    /\ frame = [p \in Procs |-> NoFrame]
    /\ heap = Heap(o)

Init ==
    /\ op = "init"
    /\ src = Nil
    /\ arg = NoArg
    /\ out = Outcome(0, NoErr)
    /\ inMem = <<>>
    /\ outMem = <<>>
    /\ Idle(Nil)

Returns(name, o, a, r) ==
    /\ op' = name
    /\ src' = o
    /\ arg' = a
    /\ out' = r
    /\ inMem' = Backing(o)
    /\ outMem' = IF ~r.panic /\ name \in {"SliceE", "KS"} THEN r.val.elems ELSE <<>>
    /\ UNCHANGED goroutines

IntTargets == {"int8", "int16", "int64"}
UintTargets == {"uint8", "uint64"}
FloatTargets == {"float32", "float64"}
Locations == {"UTC", "Local", "nil"}

CallBoolE ==
    /\ op = "init"
    /\ \E o \in ScalarSources : Returns("BoolE", o, [NoArg EXCEPT !.E = "bool"], BoolE("bool", o))
CallBool ==
    /\ op = "init"
    /\ \E o \in ScalarSources : Returns("Bool", o, [NoArg EXCEPT !.E = "bool"], Bool("bool", o))

CallIntE ==
    /\ op = "init"
    /\ \E o \in ScalarSources \cup BigSources \cup HugeSources, E \in IntTargets :
           Returns("IntE", o, [NoArg EXCEPT !.E = E], IntE(E, o))
CallInt ==
    /\ op = "init"
    /\ \E o \in ScalarSources \cup BigSources \cup HugeSources, E \in IntTargets :
           Returns("Int", o, [NoArg EXCEPT !.E = E], Int_(E, o))

CallUintE ==
    /\ op = "init"
    /\ \E o \in ScalarSources \cup HugeSources, E \in UintTargets :
           Returns("UintE", o, [NoArg EXCEPT !.E = E], UintE(E, o))
CallUint ==
    /\ op = "init"
    /\ \E o \in ScalarSources \cup HugeSources, E \in UintTargets :
           Returns("Uint", o, [NoArg EXCEPT !.E = E], Uint(E, o))

CallFloatE ==
    /\ op = "init"
    /\ \E o \in ScalarSources, E \in FloatTargets :
           Returns("FloatE", o, [NoArg EXCEPT !.E = E], FloatE(E, o))
CallFloat ==
    /\ op = "init"
    /\ \E o \in ScalarSources, E \in FloatTargets :
           Returns("Float", o, [NoArg EXCEPT !.E = E], Float(E, o))

CallStringE ==
    /\ op = "init"
    /\ \E o \in ScalarSources \cup BigSources :
           Returns("StringE", o, [NoArg EXCEPT !.E = "string"], StringE("string", o))
CallString ==
    /\ op = "init"
    /\ \E o \in ScalarSources \cup BigSources :
           Returns("String", o, [NoArg EXCEPT !.E = "string"], String("string", o))

CallDurationE ==
    /\ op = "init"
    /\ \E o \in ScalarSources \cup BigSources :
           Returns("DurationE", o, [NoArg EXCEPT !.E = "time.Duration"], DurationE(o))
CallDuration ==
    /\ op = "init"
    /\ \E o \in ScalarSources \cup BigSources :
           Returns("Duration", o, [NoArg EXCEPT !.E = "time.Duration"], Duration(o))

CallTimeInLocationE ==
    /\ op = "init"
    /\ \E o \in ScalarSources \cup BigSources, location \in Locations :
           Returns("TimeInLocationE", o,
                   [NoArg EXCEPT !.E = "time.Time", !.location = location],
                   TimeInLocationE(o, location))
CallTimeInLocation ==
    /\ op = "init"
    /\ \E o \in ScalarSources \cup BigSources, location \in Locations :
           Returns("TimeInLocation", o,
                   [NoArg EXCEPT !.E = "time.Time", !.location = location],
                   TimeInLocation(o, location))

CallTimeE ==
    /\ op = "init"
    /\ \E o \in ScalarSources \cup BigSources :
           Returns("TimeE", o, [NoArg EXCEPT !.E = "time.Time", !.location = "UTC"], TimeE(o))
CallTime ==
    /\ op = "init"
    /\ \E o \in ScalarSources \cup BigSources :
           Returns("Time", o, [NoArg EXCEPT !.E = "time.Time", !.location = "UTC"], Time(o))

CallSliceE ==
    /\ op = "init"
    /\ \E o \in SliceSources, to \in Converters :
           Returns("SliceE", o, [NoArg EXCEPT !.E = "slice", !.to = to], SliceE(to, o))
CallKS ==
    /\ op = "init"
    /\ \E o \in SliceSources, to \in Converters :
           Returns("KS", o, [NoArg EXCEPT !.E = "slice", !.to = to], KS(to, o))

CallMapE ==
    /\ op = "init"
    /\ \E o \in MapSources, key \in KeyConverters, val \in ValConverters :
           \E order \in Orders(o) :
               Returns("MapE", o,
                       [NoArg EXCEPT !.E = "map", !.key = key, !.val = val, !.order = order],
                       MapE(o, key, val, order))
CallStringKMap ==
    /\ op = "init"
    /\ \E o \in MapSources, val \in ValConverters :
           \E order \in Orders(o) :
               Returns("StringKMap", o,
                       [NoArg EXCEPT !.E = "map", !.key = <<"StringE", "string">>,
                                     !.val = val, !.order = order],
                       StringKMap(o, val, order))

CallTrimZeroDecimal ==
    /\ op = "init"
    /\ \E s \in Texts :
           Returns("trimZeroDecimal", Mk("string", s), [NoArg EXCEPT !.E = "string"],
                   Outcome(trimZeroDecimal(s), NoErr))

\* the caller assigns to element i of the sequence it got back
WriteOut ==
    /\ op \in {"SliceE", "KS"}
    /\ \E i \in DOMAIN outMem :
          /\ outMem' = [outMem EXCEPT ![i] = Other(arg.to[2], @)]
          /\ inMem' = IF out.val.ref = "input"
                      THEN [inMem EXCEPT ![i] = Other(arg.to[2], @)]
                      ELSE inMem
    /\ op' = "WriteOut"
    /\ UNCHANGED << src, arg, out, pc, frame, heap >>

\* the caller assigns to element i of the sequence it passed in
WriteIn ==
    /\ op \in {"SliceE", "KS"}
    /\ ~out.panic
    /\ \E i \in DOMAIN inMem :
          /\ inMem' = [inMem EXCEPT ![i] = Other(ElemTypeOf(src), @)]
          /\ outMem' = IF out.val.ref = "input"
                       THEN [outMem EXCEPT ![i] = Other(ElemTypeOf(src), @)]
                       ELSE outMem
    /\ op' = "WriteIn"
    /\ UNCHANGED << src, arg, out, pc, frame, heap >>

\* K(text): the engine of the kind and width of the value v, given text
Matching(v, text) ==
    IF v.dyn \in IntTypes THEN IntE(v.dyn, Mk("string", text))
    ELSE IF v.dyn \in UintTypes THEN UintE(v.dyn, Mk("string", text))
    ELSE BoolE("bool", Mk("string", text))

\* the caller converts the text it got for an integer or a boolean back with
\* the engine of the value's own type: K(String(v))
RoundTrip ==
    /\ op \in {"StringE", "String"}
    /\ src.dyn \in IntTypes \cup UintTypes \cup {"bool"}
    /\ ~out.panic /\ out.err = NoErr
    /\ op' = "RoundTrip"
    /\ arg' = [arg EXCEPT !.E = src.dyn]
    /\ out' = Matching(src, out.val)
    /\ UNCHANGED << src, inMem, outMem, pc, frame, heap >>

Next ==
    \/ CallBoolE \/ CallBool
    \/ CallIntE \/ CallInt
    \/ CallUintE \/ CallUint
    \/ CallFloatE \/ CallFloat
    \/ CallStringE \/ CallString
    \/ CallDurationE \/ CallDuration
    \/ CallTimeInLocationE \/ CallTimeInLocation
    \/ CallTimeE \/ CallTime
    \/ CallSliceE \/ CallKS
    \/ CallMapE \/ CallStringKMap
    \/ CallTrimZeroDecimal
    \/ WriteOut \/ WriteIn
    \/ RoundTrip

Spec == Init /\ [][Next]_vars

-----------------------------------------------------------------------------
(* Concurrent callers: each goroutine makes one call on the source all of  *)
(* them share, and the calls advance one step at a time in any order.  A   *)
(* step is one round of an engine's loop; a scalar engine is one step.     *)

\* the sources the goroutines share
SharedSources ==
    {Nil, Mk("int", 5)}
    \cup SliceOf("any", { Mk("string", <<"1">>), Mk("string", <<"a">>) })
    \cup SliceOf("string", { Mk("string", <<"1">>) })
    \cup { Mk("[]byte", <<"1", "0">>) }
    \cup MapOf("string", { Mk("string", <<"1">>) })
    \cup { Mk("string", t.text) : t \in TimeTexts }
    \cup { Mk("string", JsonKeyText) }

GoConverters == { <<"IntE", "int">>, <<"StringE", "string">>, <<"Any", "any">> }

\* reference types: the interface value a goroutine passes points into the heap
Shares(o) == Kind(o.dyn) \in {"slice", "[]byte", "map"}

\* the source of the call with frame f as memory holds it now
Load(f) == IF Shares(f.o) THEN heap.o ELSE f.o

ConcInit ==
    /\ op = "init"
    /\ src = Nil
    /\ arg = NoArg
    /\ out = Outcome(0, NoErr)
    /\ inMem = <<>>
    /\ outMem = <<>>
    /\ \E o \in SharedSources : Idle(o)

\* goroutine p calls engine e with arguments a on the shared source
Enters(p, e, a) == [NoFrame EXCEPT !.engine = e, !.o = heap.o, !.a = a]

\* goroutine p returns r from the call with frame f
Returned(p, f, r) ==
    /\ pc' = [pc EXCEPT ![p] = "done"]
    /\ frame' = [frame EXCEPT ![p] = [f EXCEPT !.ret = r]]

\* goroutine p moves on in engine e with frame f
Continues(p, e, f) ==
    /\ pc' = [pc EXCEPT ![p] = e]
    /\ frame' = [frame EXCEPT ![p] = f]

\* make, slices.Clone: the next free address
Allocated == [heap EXCEPT !.allocs = @ + 1]

\* a scalar engine, called and returned
GoScalar(p) ==
    /\ pc[p] = "idle"
    /\ \E to \in GoConverters :
          Returned(p, Enters(p, "scalar", [NoArg EXCEPT !.to = to]), Apply(to, heap.o))
    /\ UNCHANGED << heap, single >>

\* toSliceE up to its loop: the nil guard, the clone of a source of the
\* target type, the kind check and make(S, value.Len())
GoSlice(p) ==
    /\ pc[p] = "idle"
    /\ \E to \in GoConverters :
          LET f == Enters(p, "toSliceE", [NoArg EXCEPT !.to = to])
              o == heap.o
          IN  IF o.dyn = "nil"
              THEN Returned(p, f, Outcome(Zero("slice"), NoErr)) /\ UNCHANGED heap
              ELSE IF ElemTypeOf(o) = ElemType(to)
              THEN /\ Returned(p, [f EXCEPT !.at = heap.allocs + 1],
                               Outcome(Clone(ElemType(to), o), NoErr))
                   /\ heap' = Allocated
              ELSE IF Kind(o.dyn) \in {"slice", "array", "[]byte"}
              THEN /\ Continues(p, "toSliceE", [f EXCEPT !.i = 1, !.at = heap.allocs + 1])
                   /\ heap' = Allocated
              ELSE Returned(p, f, failedCastValue("slice", o)) /\ UNCHANGED heap
    /\ UNCHANGED single

\* fault: the converted element also stored back into the source
SliceStored_InPlace(p, f, r) ==
    IF r.panic THEN Returned(p, f, r) /\ UNCHANGED heap
    ELSE IF r.err # NoErr
    THEN Returned(p, f, Outcome(Zero("slice"), r.err)) /\ UNCHANGED heap
    ELSE /\ Continues(p, "toSliceE", [f EXCEPT !.i = @ + 1, !.res = Append(@, r.val)])
         /\ heap' = IF heap.o.dyn = "slice"
                    THEN [heap EXCEPT !.o.val[f.i] = Mk(ElemType(f.a.to), r.val)]
                    ELSE heap

\* the rest of a round of toSliceE, r the outcome of to on element i:
\* return on a failure, res[i] = val otherwise
SliceStored(p, f, r) ==
    /\ IF r.panic THEN Returned(p, f, r)
       ELSE IF r.err # NoErr THEN Returned(p, f, Outcome(Zero("slice"), r.err))
       ELSE Continues(p, "toSliceE", [f EXCEPT !.i = @ + 1, !.res = Append(@, r.val)])
    /\ UNCHANGED heap

\* one round of the loop of toSliceE: element i read from the source
SliceRound(p) ==
    /\ pc[p] = "toSliceE"
    /\ LET f == frame[p] IN
       IF f.i > Len(f.o.val)
       THEN /\ Returned(p, f, Outcome([nil |-> FALSE, ref |-> "fresh", elems |-> f.res], NoErr))
            /\ UNCHANGED heap
       ELSE SliceStored(p, f, Apply(f.a.to, Elems(Load(f))[f.i]))
    /\ UNCHANGED single

\* mapE up to its loop: the nil guard, the text decoded into a new mapping,
\* the kind check, make(M) and MapKeys()
GoMap(p) ==
    /\ pc[p] = "idle"
    /\ \E key \in KeyConverters, val \in GoConverters, order \in Orders(heap.o) :
          LET f == Enters(p, "mapE", [NoArg EXCEPT !.key = key, !.val = val, !.order = order])
              o == heap.o
          IN  IF o.dyn = "nil"
              THEN Returned(p, f, Outcome(Zero("map"), NoErr)) /\ UNCHANGED heap
              ELSE IF o.dyn = "string"
              THEN /\ Returned(p, [f EXCEPT !.at = heap.allocs + 1], mapE(o, key, val, order))
                   /\ heap' = Allocated
              ELSE IF Kind(o.dyn) # "map"
              THEN Returned(p, f, failedCastValue("map", o)) /\ UNCHANGED heap
              ELSE /\ Continues(p, "mapE", [f EXCEPT !.i = 1, !.at = heap.allocs + 1,
                                                     !.res = [k \in {} |-> 0]])
                   /\ heap' = Allocated
    /\ UNCHANGED single

\* the rest of a round of mapE, rs the outcomes of the two converters
MapStored(p, f, rs) ==
    LET key == f.a.key
        val == f.a.val
    IN  IF rs[key].panic THEN Returned(p, f, rs[key])
        ELSE IF rs[key].err # NoErr THEN Returned(p, f, Outcome(Zero("map"), rs[key].err))
        ELSE IF rs[val].panic THEN Returned(p, f, rs[val])
        ELSE IF rs[val].err # NoErr THEN Returned(p, f, Outcome(Zero("map"), rs[val].err))
        ELSE Continues(p, "mapE",
                       [f EXCEPT !.i = @ + 1,
                                 !.res = SetMapIndex(@, ElemType(val), rs[key].val, rs[val].val)])

\* one round of the loop of mapE: the entry of key i read from the source
MapRound(p) ==
    /\ pc[p] = "mapE"
    /\ LET f == frame[p] IN
       IF f.i > Len(f.a.order)
       THEN Returned(p, f, Outcome([nil |-> FALSE, elems |-> f.res], NoErr))
       ELSE MapStored(p, f, [c \in {f.a.key, f.a.val} |->
                                Apply(c, Load(f).val[f.a.order[f.i]])])
    /\ UNCHANGED << heap, single >>

\* timeInLocationE up to the loop of its text cases
GoTime(p) ==
    /\ pc[p] = "idle"
    /\ \E location \in Locations :
          LET f == Enters(p, "timeInLocationE", [NoArg EXCEPT !.location = location])
          IN  IF heap.o.dyn \in {"string", "[]byte"}
              THEN Continues(p, "timeInLocationE", [f EXCEPT !.i = 1, !.res = heap.o.val])
              ELSE Returned(p, f, timeInLocationE(heap.o, location))
    /\ UNCHANGED << heap, single >>

\* the rest of a round of the loop over TimeFormats, r the outcome of
\* time.ParseInLocation
TimeParsed(p, f, r) ==
    IF r.panic THEN Returned(p, f, Panic)
    ELSE IF ~r.ok THEN Continues(p, "timeInLocationE", [f EXCEPT !.i = @ + 1])
    ELSE Returned(p, f, Outcome(r.t, NoErr))

\* one round of the loop over TimeFormats: layout i read from the package
\* variable
TimeRound(p) ==
    /\ pc[p] = "timeInLocationE"
    /\ LET f == frame[p] IN
       IF f.i > Len(heap.TimeFormats)
       THEN Returned(p, f, failedCastValue("time.Time", f.o))
       ELSE TimeParsed(p, f, ParseInLocation(heap.TimeFormats[f.i], f.res, f.a.location))
    /\ UNCHANGED << heap, single >>

ConcNext ==
    \E p \in Procs :
        \/ GoScalar(p)
        \/ GoSlice(p) \/ SliceRound(p)
        \/ GoMap(p) \/ MapRound(p)
        \/ GoTime(p) \/ TimeRound(p)

ConcSpec == ConcInit /\ [][ConcNext]_vars

-----------------------------------------------------------------------------
(* Concurrent callers of Quote.  Here heap holds quotePool and the buffers *)
(* it has handed out, and a frame the locals of one call of Quote; a call  *)
(* advances one statement at a time.                                       *)

\* the most buffers alive at a time: sync.Pool may call New while it holds
\* buffers, and the collector may drop the buffers it holds
MaxBuffers == Cardinality(Procs) + 1
Buffers == 1..MaxBuffers

QuoteTexts == { <<>>, <<"a">> }
QuoteMarks == { <<"'">>, <<"*">> }

\* the locals of a call of Quote: its arguments, the buffer it got (0: none),
\* the count of WriteString calls made, and the text it returned
NoQuote == [e |-> <<>>, quote |-> <<>>, buffer |-> 0, i |-> 0, ret |-> <<>>]

QuoteInit ==
    /\ op = "init"
    /\ src = Nil
    /\ arg = NoArg
    /\ out = Outcome(0, NoErr)
    /\ inMem = <<>>
    /\ outMem = <<>>
    /\ pc = [p \in Procs |-> "idle"]
    /\ frame = [p \in Procs |-> NoQuote]
    /\ heap = [pool |-> {}, live |-> {}, bytes |-> [b \in Buffers |-> <<>>]]

\* fault: Get hands out a buffer and leaves it in the pool
PoolGet_Leave(b) ==
    IF b \in heap.live THEN heap
    ELSE [heap EXCEPT !.live = @ \cup {b}, !.bytes[b] = <<>>]

\* quotePool.Get() returning buffer b: one taken out of the pool, or a new
\* one from New, bytes.NewBuffer(make([]byte, 0, 16))
PoolGet(b) ==
    IF b \in heap.live THEN [heap EXCEPT !.pool = @ \ {b}]
    ELSE [heap EXCEPT !.live = @ \cup {b}, !.bytes[b] = <<>>]

\* buffer := quotePool.Get().(*bytes.Buffer), in a first or a further call
QuoteGet(p) ==
    /\ pc[p] \in {"idle", "done"}
    /\ \E e \in QuoteTexts, quote \in QuoteMarks, b \in heap.pool \cup (Buffers \ heap.live) :
          /\ frame' = [frame EXCEPT ![p] = [NoQuote EXCEPT !.e = e, !.quote = quote,
                                                          !.buffer = b]]
          /\ heap' = PoolGet(b)
    /\ pc' = [pc EXCEPT ![p] = "Reset"]
    /\ UNCHANGED single

\* buffer.Reset()
QuoteReset(p) ==
    /\ pc[p] = "Reset"
    /\ heap' = [heap EXCEPT !.bytes[frame[p].buffer] = <<>>]
    /\ pc' = [pc EXCEPT ![p] = "WriteString"]
    /\ UNCHANGED << frame, single >>

\* buffer.WriteString(quote), buffer.WriteString(string(e)), buffer.WriteString(quote)
QuoteWriteString(p) ==
    /\ pc[p] = "WriteString"
    /\ LET f == frame[p] IN
       /\ heap' = [heap EXCEPT !.bytes[f.buffer] = @ \o (IF f.i = 1 THEN f.e ELSE f.quote)]
       /\ frame' = [frame EXCEPT ![p].i = @ + 1]
       /\ pc' = [pc EXCEPT ![p] = IF f.i = 2 THEN "String" ELSE "WriteString"]
    /\ UNCHANGED single

\* return E(buffer.String()): the bytes copied into a new string
QuoteString(p) ==
    /\ pc[p] = "String"
    /\ frame' = [frame EXCEPT ![p].ret = heap.bytes[frame[p].buffer]]
    /\ pc' = [pc EXCEPT ![p] = "Put"]
    /\ UNCHANGED << heap, single >>

\* defer quotePool.Put(buffer)
QuotePut(p) ==
    /\ pc[p] = "Put"
    /\ heap' = [heap EXCEPT !.pool = @ \cup {frame[p].buffer}]
    /\ frame' = [frame EXCEPT ![p].buffer = 0]
    /\ pc' = [pc EXCEPT ![p] = "done"]
    /\ UNCHANGED single

\* the collector drops a buffer the pool holds
PoolCollect ==
    /\ \E b \in heap.pool :
          heap' = [heap EXCEPT !.pool = @ \ {b}, !.live = @ \ {b}, !.bytes[b] = <<>>]
    /\ UNCHANGED << pc, frame, single >>

QuoteNext ==
    \/ \E p \in Procs :
          \/ QuoteGet(p) \/ QuoteReset(p) \/ QuoteWriteString(p)
          \/ QuoteString(p) \/ QuotePut(p)
    \/ PoolCollect

QuoteSpec == QuoteInit /\ [][QuoteNext]_vars

-----------------------------------------------------------------------------
(* The descent of one call: the recursion of an engine into the value a    *)
(* valuer yields or a box carries, and the loop of indirectValue, one      *)
(* level per step.  Here heap holds the objects in memory, each with the   *)
(* object its Value() yields, its GetValue() gives or its pointer refers   *)
(* to, and a frame the engine called, its source and the object reached.   *)

Objects ==
    [ n     |-> [dyn |-> "int64",  to |-> "-"],
      s     |-> [dyn |-> "string", to |-> "-"],
      t     |-> [dyn |-> "MyStruct", to |-> "-"],
      v     |-> [dyn |-> "Valuer", to |-> "n"],
      vv    |-> [dyn |-> "Valuer", to |-> "v"],
      vnil  |-> [dyn |-> "Valuer", to |-> "nil"],
      vself |-> [dyn |-> "Valuer", to |-> "vself"],
      va    |-> [dyn |-> "Valuer", to |-> "vb"],
      vb    |-> [dyn |-> "Valuer", to |-> "va"],
      box   |-> [dyn |-> "*wrapperspb.StringValue", to |-> "s"],
      p     |-> [dyn |-> "ptr", to |-> "n"],
      pp    |-> [dyn |-> "ptr", to |-> "p"],
      pt    |-> [dyn |-> "ptr", to |-> "t"],
      pnil  |-> [dyn |-> "nilptr", to |-> "-"],
      pself |-> [dyn |-> "ptr", to |-> "pself"],
      nil   |-> [dyn |-> "nil", to |-> "-"] ]

\* the engines whose descent is followed
DescentEngines == {"floatE", "timeInLocationE"}

\* round is the parity of the number of nested calls and loop rounds made so
\* far: the number itself grows without bound in a descent that never ends
NoDescent == [engine |-> "-", o |-> "nil", cur |-> "nil", round |-> 0]

DescentInit ==
    /\ op = "init"
    /\ src = Nil
    /\ arg = NoArg
    /\ out = Outcome(0, NoErr)
    /\ inMem = <<>>
    /\ outMem = <<>>
    /\ pc = [p \in Procs |-> "idle"]
    /\ frame = [p \in Procs |-> NoDescent]
    /\ heap = Objects

\* the case of the engine's type switch that takes an object of type d
SwitchCase(engine, d) ==
    IF d = "nil" THEN "return"
    ELSE IF d = "Valuer" THEN "Value"
    ELSE IF d = "*wrapperspb.StringValue"
    THEN (IF engine = "timeInLocationE" THEN "GetValue" ELSE "return")
    ELSE IF d \in {"int64", "string"} THEN "return"
    ELSE IF engine = "timeInLocationE" THEN "return"
    ELSE "indirectValue"

\* goroutine p calls an engine on an object
Descends(p) ==
    /\ pc[p] = "idle"
    /\ \E engine \in DescentEngines, o \in DOMAIN heap :
          frame' = [frame EXCEPT ![p] = [engine |-> engine, o |-> o, cur |-> o, round |-> 0]]
    /\ pc' = [pc EXCEPT ![p] = "switch"]
    /\ UNCHANGED << heap, single >>

\* the type switch on the object reached: the engine calls itself on what
\* Value() yields or GetValue() gives, enters indirectValue, or returns
Switches(p) ==
    /\ pc[p] = "switch"
    /\ LET f == frame[p]
           c == SwitchCase(f.engine, heap[f.cur].dyn)
       IN  IF c \in {"Value", "GetValue"}
           THEN /\ frame' = [frame EXCEPT ![p].cur = heap[f.cur].to,
                                        ![p].round = 1 - f.round]
                /\ UNCHANGED pc
           ELSE /\ pc' = [pc EXCEPT ![p] = IF c = "indirectValue" THEN c ELSE "returned"]
                /\ UNCHANGED frame
    /\ UNCHANGED << heap, single >>

\* one round of the loop of indirectValue:
\* for v.Kind() == reflect.Pointer && !v.IsNil() { v = v.Elem() }
Indirects(p) ==
    /\ pc[p] = "indirectValue"
    /\ LET f == frame[p] IN
       IF heap[f.cur].dyn = "ptr"
       THEN /\ frame' = [frame EXCEPT ![p].cur = heap[f.cur].to,
                                        ![p].round = 1 - f.round]
            /\ UNCHANGED pc
       ELSE /\ pc' = [pc EXCEPT ![p] = "returned"]
            /\ UNCHANGED frame
    /\ UNCHANGED << heap, single >>

Runs(p) == Switches(p) \/ Indirects(p)

DescentNext ==
    \E p \in Procs : Descends(p) \/ Switches(p) \/ Indirects(p)

\* a call that can take a step takes it
DescentSpec ==
    DescentInit /\ [][DescentNext]_vars /\ \A p \in Procs : WF_vars(Runs(p))

-----------------------------------------------------------------------------
(* What the claims speak of.                                               *)

EOps == {"BoolE", "IntE", "UintE", "FloatE", "StringE", "DurationE",
         "TimeE", "TimeInLocationE", "SliceE", "MapE"}
KOps == {"Bool", "Int", "Uint", "Float", "String", "Duration",
         "Time", "TimeInLocation", "KS", "StringKMap"}

\* the outcome of the error-returning form of the entry point called
ErrorForm(name, o, a) ==
    CASE name \in {"Bool", "BoolE"}         -> BoolE(a.E, o)
      [] name \in {"Int", "IntE"}           -> IntE(a.E, o)
      [] name \in {"Uint", "UintE"}         -> UintE(a.E, o)
      [] name \in {"Float", "FloatE"}       -> FloatE(a.E, o)
      [] name \in {"String", "StringE"}     -> StringE(a.E, o)
      [] name \in {"Duration", "DurationE"} -> DurationE(o)
      [] name \in {"Time", "TimeE"}         -> TimeE(o)
      [] name \in {"TimeInLocation", "TimeInLocationE"} -> TimeInLocationE(o, a.location)
      [] name \in {"KS", "SliceE"}          -> SliceE(a.to, o)
      [] name \in {"StringKMap", "MapE"}    -> MapE(o, a.key, a.val, a.order)

IsText(o, t) == o.dyn \in {"string", "[]byte"} /\ o.val = t

\* C1: in every scalar engine and in the sequence and mapping engines, both
\* the error-returning and the error-suppressing form turn a nil source into
\* the zero value of the target (the nil container for containers) with a
\* nil error.
C1_NilSourceYieldsZero ==
    (op \in EOps \cup KOps /\ src.dyn = "nil") => out = Outcome(Zero(arg.E), NoErr)

\* a nil source was given to the timestamp engine together with a nil location
C1_Witness ==
    /\ op = "TimeInLocationE" /\ src.dyn = "nil" /\ arg.location = "nil"
    /\ out = Outcome(Zero("time.Time"), NoErr)

C3_NoPanic == op \in EOps \cup KOps => ~out.panic

\* C4: for a mapping source all of whose keys and values convert, mapping
\* conversion succeeds and the result holds, for every source entry (k, v),
\* keyConverter(k) mapped to valueConverter(v), and nothing else.
C4_EntryWise ==
    (/\ op = "MapE" /\ src.dyn = "map"
     /\ \A k \in DOMAIN src.val :
           /\ Apply(arg.key, Mk(src.kt, k)).err = NoErr
           /\ Apply(arg.val, src.val[k]).err = NoErr)
    => /\ out.err = NoErr
       /\ DOMAIN out.val.elems = { Apply(arg.key, Mk(src.kt, k)).val : k \in DOMAIN src.val }
       /\ \A k \in DOMAIN src.val :
             out.val.elems[Apply(arg.key, Mk(src.kt, k)).val]
                = Apply(arg.val, src.val[k]).val

\* a source that carries a negative value, in the ways the unsigned engine
\* meets one: a negative number, a text with a negative sign, a JSON number
\* that denotes a negative number ("-0" denotes zero)
RECURSIVE Negative(_)
Negative(o) ==
    CASE o.dyn \in IntTypes \cup FloatTypes \cup {"MyInt", "MyFloat", "MyFloat32"} -> o.val < 0
      [] o.dyn \in {"time.Duration", "time.Weekday", "time.Month"}   -> o.val < 0
      [] o.dyn \in {"*wrapperspb.Int64Value", "*wrapperspb.Int32Value",
                    "*durationpb.Duration"} \cup FloatBoxes          -> o.val < 0
      [] o.dyn \in {"string", "[]byte", "MyString", "MyBytes"} \cup TextBoxes
                          -> o.val # <<>> /\ o.val[1] = "-"
      [] o.dyn = "json.Number"
                          -> LET r == ParseFloat(o.val) IN r.err = "" /\ r.v < 0
      [] o.dyn = "ptr"    -> Negative(o.val)
      [] o.dyn = "Valuer" -> ~o.val.err /\ Negative(o.val.v)
      [] OTHER            -> FALSE

\* C5: the unsigned engine answers every source that carries a negative value
\* with an error and the zero value, never with the value wrapped around.
C5_NegativeIsError ==
    /\ (op = "UintE" /\ Negative(src)) => (out.err # NoErr /\ out.val = 0)
    /\ (op = "Uint" /\ Negative(src)) => out.val = 0

\* a named type with a negative underlying value was refused
C5_Witness ==
    /\ op = "UintE" /\ src.dyn = "MyInt" /\ src.val < 0
    /\ out.err # NoErr

\* C6: the normalizer turns "10.00" into "10", "5.10" into "5.1", "3.0" into
\* "3", and leaves "3.14" and "100" as they are.
C6_NormalizerExamples ==
    op = "trimZeroDecimal" =>
       /\ src.val = <<"1","0",".","0","0">> => out.val = <<"1","0">>
       /\ src.val = <<"5",".","1","0">>     => out.val = <<"5",".","1">>
       /\ src.val = <<"3",".","1","4">>     => out.val = <<"3",".","1","4">>
       /\ src.val = <<"3",".","0">>         => out.val = <<"3">>
       /\ src.val = <<"1","0","0">>         => out.val = <<"1","0","0">>

TrueLiterals ==
    { <<"1">>, <<"t">>, <<"T">>, <<"t","r","u","e">>, <<"T","R","U","E">>,
      <<"T","r","u","e">> }
FalseLiterals ==
    { <<"0">>, <<"f">>, <<"F">>, <<"f","a","l","s","e">>, <<"F","A","L","S","E">>,
      <<"F","a","l","s","e">> }

\* C7: the boolean engine turns a text into true for exactly the six true
\* literals, into false for exactly the six false literals, and reports an
\* error for every other text; it turns a number into true exactly when the
\* number is not zero.
C7_BoolGrammar ==
    op = "BoolE" =>
       /\ src.dyn \in {"string", "[]byte", "MyString", "MyBytes"} \cup TextBoxes =>
             /\ src.val \in TrueLiterals  => out = Outcome(TRUE, NoErr)
             /\ src.val \in FalseLiterals => out = Outcome(FALSE, NoErr)
             /\ src.val \notin TrueLiterals \cup FalseLiterals =>
                   (out.err # NoErr /\ out.val = FALSE)
       /\ src.dyn \in IntTypes \cup UintTypes \cup FloatTypes
                      \cup {"MyInt", "MyUint", "MyFloat"} \cup NumBoxes =>
             out = Outcome(src.val # 0, NoErr)

\* a near miss of a literal was refused
C7_Witness ==
    /\ op = "BoolE" /\ IsText(src, <<"t","R","U","E">>)
    /\ out.err # NoErr

IsSequence(o) == Kind(o.dyn) \in {"slice", "array", "[]byte"}
ExactType(o, a) == ElemTypeOf(o) = ElemType(a.to)

\* C8 as stated: on success the result has the length of the source and its
\* i-th element is elementConverter(source[i]).
C8_ElementWise_Original ==
    (op = "SliceE" /\ IsSequence(src) /\ ~out.panic /\ out.err = NoErr) =>
       /\ Len(out.val.elems) = Len(Elems(src))
       /\ \A i \in DOMAIN out.val.elems :
             Apply(arg.to, Elems(src)[i]) = Outcome(out.val.elems[i], NoErr)

\* C8: on success the result has the length of the source; its i-th element
\* is elementConverter(source[i]) when the dynamic type of the source is not
\* the target sequence type, and is source[i] itself, the converter not being
\* called, when it is.
C8_ElementWise ==
    (op = "SliceE" /\ IsSequence(src) /\ ~out.panic /\ out.err = NoErr) =>
       /\ Len(out.val.elems) = Len(Elems(src))
       /\ \A i \in DOMAIN out.val.elems :
             IF ExactType(src, arg)
             THEN out.val.elems[i] = Stored(ElemTypeOf(src), Elems(src)[i])
             ELSE Apply(arg.to, Elems(src)[i]) = Outcome(out.val.elems[i], NoErr)

\* a sequence of texts of the greatest length was converted to integers
C8_Witness ==
    /\ op = "SliceE" /\ src.dyn = "slice" /\ src.et = "string"
    /\ arg.to = <<"IntE", "int">>
    /\ out.err = NoErr /\ Len(out.val.elems) = MaxSeq
    /\ out.val.elems[MaxSeq] = 0 - 1

\* the first index of vals whose conversion fails, 0 when there is none
FirstFailure(to, vals) ==
    IF \E i \in DOMAIN vals : Apply(to, vals[i]).err # NoErr
    THEN CHOOSE i \in DOMAIN vals :
            /\ Apply(to, vals[i]).err # NoErr
            /\ \A j \in 1..(i - 1) : Apply(to, vals[j]).err = NoErr
    ELSE 0

\* C9: when the conversion of an element of a sequence fails, or that of the
\* key or the value of an entry of a mapping, the result is the nil container
\* with an error; for a sequence the error is that of the first failing
\* element.
C9_Atomic ==
    /\ (op = "SliceE" /\ IsSequence(src) /\ ~ExactType(src, arg) /\ ~out.panic
        /\ FirstFailure(arg.to, Elems(src)) # 0) =>
          /\ out.val = Zero("slice")
          /\ out.err = Apply(arg.to, Elems(src)[FirstFailure(arg.to, Elems(src))]).err
    /\ (op = "MapE" /\ src.dyn = "map" /\ ~out.panic
        /\ \E k \in DOMAIN src.val :
              \/ Apply(arg.key, Mk(src.kt, k)).err # NoErr
              \/ Apply(arg.val, src.val[k]).err # NoErr) =>
          /\ out.val = Zero("map")
          /\ out.err # NoErr

\* C10: a sequence whose dynamic type is the target sequence type converts to
\* a new sequence with the same contents; the call leaves the input as it
\* was, a later write to the result does not show through the input, and a
\* later write to the input does not show through the result.
C10_DefensiveCopy ==
    (IsSequence(src) /\ ExactType(src, arg)) =>
       /\ op \in {"SliceE", "KS"} =>
             /\ out = Outcome([nil |-> FALSE, ref |-> out.val.ref, elems |-> Backing(src)],
                              NoErr)
             /\ inMem = Backing(src)
             /\ outMem = Backing(src)
       /\ op = "WriteOut" => (inMem = Backing(src) /\ outMem # Backing(src))
       /\ op = "WriteIn"  => (outMem = Backing(src) /\ inMem # Backing(src))

\* the caller wrote into the copy it got of a sequence of its own type
C10_Witness ==
    /\ op = "WriteOut" /\ src.dyn = "slice" /\ ExactType(src, arg)
    /\ Len(inMem) = MaxSeq
    /\ outMem # inMem

\* C11: the text the string engine renders for a signed integer, an unsigned
\* integer or a boolean converts back, with the engine of the value's own kind
\* and width, to the value it was rendered from, with no error.
C11_RoundTrip ==
    op = "RoundTrip" => out = Outcome(src.val, NoErr)

\* a negative integer of the narrowest width went to text and came back
C11_Witness ==
    /\ op = "RoundTrip" /\ src = Mk("int8", 0 - 128)
    /\ out = Outcome(0 - 128, NoErr)

\* the sources the duration engine lists in its numeric case
DurationNumeric ==
    FloatTypes \cup IntTypes \cup UintTypes \cup {"json.Number"} \cup NumBoxes

\* the count of ticks a numeric source denotes, floats cut toward zero
Ticks(o) ==
    IF o.dyn \in FloatTypes \cup FloatBoxes THEN Trunc(o.val)
    ELSE IF o.dyn = "json.Number" THEN ParseInt(o.val, 10).v
    ELSE o.val

\* C12: a numeric source of the duration engine (a native integer of any
\* width, a float, a JSON number that denotes an integer, a numeric box)
\* converts to the duration of that many nanosecond ticks, floats cut toward
\* zero, with no error.
C12_NumericTicks ==
    (/\ op \in {"DurationE", "Duration"}
     /\ src.dyn \in DurationNumeric
     /\ src.dyn = "json.Number" => ParseInt(src.val, 10).err = "") =>
        out = Outcome(Ticks(src), NoErr)

TimeOps == {"TimeE", "Time", "TimeInLocationE", "TimeInLocation"}

Accepting(text) ==
    { i \in 1..Len(TimeFormats) :
         \E t \in TimeTexts : t.text = text /\ TimeFormats[i] \in t.layouts }

First(S) == CHOOSE i \in S : \A j \in S : i <= j

\* C14: for a string or a byte sequence the timestamp engine returns the
\* parse result of the first layout of the list that accepts the text, and a
\* cast error with the zero instant exactly when no layout accepts it.
C14_FirstLayoutWins ==
    (op \in {"TimeE", "TimeInLocationE"} /\ src.dyn \in {"string", "[]byte"}) =>
        /\ ~out.panic
        /\ IF Accepting(src.val) = {}
           THEN out = failedCastValue("time.Time", src)
           ELSE out = Outcome(ParseInLocation(TimeFormats[First(Accepting(src.val))],
                                              src.val, arg.location).t, NoErr)

\* C15: with a nil location TimeInLocationE and TimeInLocation read text that
\* matches a zone-less layout as wall-clock time in the local timezone, with
\* no error.
C15_NilLocationIsLocal ==
    \A t \in TimeTexts :
        (/\ op \in {"TimeInLocationE", "TimeInLocation"}
         /\ arg.location = "nil"
         /\ src.dyn \in {"string", "[]byte"} /\ src.val = t.text
         /\ ~t.zoned) =>
            /\ ~out.panic
            /\ out.err = NoErr
            /\ out.val = [unix |-> t.wall - LocalOffset, loc |-> "Local"]

IntOps == {"IntE", "Int"}
UintOps == {"UintE", "Uint"}

\* plain decimal digits, with no leading zero that would read as a base prefix
DecimalDigits(s) ==
    /\ s # <<>>
    /\ \A i \in 1..Len(s) : IsDigit(s[i])
    /\ s[1] = "0" => Len(s) = 1

\* integer text: decimal digits, for a signed target after an optional minus
IntegerText(s, signed) ==
    \/ DecimalDigits(s)
    \/ signed /\ s # <<>> /\ s[1] = "-" /\ DecimalDigits(Tail(s))

\* integer text whose number lies beyond 64 bits
Beyond64(o) == o.dyn \in {"string", "[]byte"} /\ Len(o.val) > 20

\* an integer or integer-text source of the sign the engine takes
InSign(o, signed) ==
    \/ o.dyn \in IntTypes \cup UintTypes /\ (signed \/ o.val >= 0)
    \/ o.dyn \in {"string", "[]byte"} /\ IntegerText(o.val, signed)

\* the number an integer or integer-text source denotes
Number(o) ==
    IF o.dyn \in IntTypes \cup UintTypes THEN o.val
    ELSE IF o.val[1] = "-" THEN 0 - Accumulate(Tail(o.val), 10, 0)
    ELSE Accumulate(o.val, 10, 0)

\* r is the value of type E that is congruent to n modulo 2^w, w the width of E
Reduced(E, signed, r, n) ==
    IF Bits(E) >= 32 THEN r = n
    ELSE /\ (r - n) % (2 ^ Bits(E)) = 0
         /\ IF signed THEN r \in (0 - 2 ^ (Bits(E) - 1))..(2 ^ (Bits(E) - 1) - 1)
                      ELSE r \in 0..(2 ^ Bits(E) - 1)

\* the outcome of the engine of op at its widest target
Widest(o) == IF op \in IntOps THEN IntE("int64", o) ELSE UintE("uint64", o)

\* C16 as stated: every in-sign integer or integer-text source, whatever its
\* size, converts with a nil error to its value reduced modulo 2^w.
C16_Wraparound_Original ==
    (op \in IntOps \cup UintOps /\ InSign(src, op \in IntOps)) =>
        /\ ~out.panic
        /\ out.err = NoErr
        /\ ~Beyond64(src) => Reduced(arg.E, op \in IntOps, out.val, Number(src))

\* C16: an in-sign integer, or integer text whose number fits 64 bits,
\* converts with a nil error to its value reduced modulo 2^w, never a
\* saturated value; and for every source the outcome for a w-bit target is the
\* outcome for the 64-bit target reduced modulo 2^w, with an error for the one
\* exactly when there is an error for the other.
C16_Wraparound ==
    /\ (op \in IntOps \cup UintOps /\ InSign(src, op \in IntOps) /\ ~Beyond64(src)) =>
          /\ ~out.panic
          /\ out.err = NoErr
          /\ Reduced(arg.E, op \in IntOps, out.val, Number(src))
    /\ op \in {"IntE", "UintE"} =>
          /\ out.panic = Widest(src).panic
          /\ (out.err = NoErr) = (Widest(src).err = NoErr)
          /\ (~out.panic /\ out.err = NoErr) =>
                Reduced(arg.E, op \in IntOps, out.val, Widest(src).val)

\* the text 300 went to a signed 8-bit target and came back as 44
C16_Witness ==
    /\ op = "IntE" /\ arg.E = "int8" /\ src = Mk("string", Lit_300)
    /\ out = Outcome(44, NoErr)

\* what decoding a JSON text into a map[K]V gives, as encoding/json defines
\* it for the texts of the model: null is the nil mapping, {} the empty one,
\* {"k":"1"} and {"k":1} one entry when K is string and V takes the value
Decoded(text, K, V) ==
    IF text = JsonNull THEN [ok |-> TRUE, nil |-> TRUE, elems |-> <<>>]
    ELSE IF text = JsonEmpty THEN [ok |-> TRUE, nil |-> FALSE, elems |-> <<>>]
    ELSE IF text = JsonKeyText /\ K = "string" /\ V = "string"
    THEN [ok |-> TRUE, nil |-> FALSE, elems |-> [k \in { <<"k">> } |-> <<"1">>]]
    ELSE IF text = JsonKeyText /\ K = "string" /\ V = "any"
    THEN [ok |-> TRUE, nil |-> FALSE, elems |-> [k \in { <<"k">> } |-> Mk("string", <<"1">>)]]
    ELSE IF text = JsonKeyNum /\ K = "string" /\ V = "int"
    THEN [ok |-> TRUE, nil |-> FALSE, elems |-> [k \in { <<"k">> } |-> 1]]
    ELSE IF text = JsonKeyNum /\ K = "string" /\ V = "any"
    THEN [ok |-> TRUE, nil |-> FALSE, elems |-> [k \in { <<"k">> } |-> Mk("float64", FloatUnit)]]
    ELSE [ok |-> FALSE, nil |-> TRUE, elems |-> <<>>]

\* C17: a string source of a mapping conversion is decoded as JSON into the
\* target mapping type, the converters playing no part: the result is what
\* the decoder gives for the target's key and value types; text that does not
\* decode into the target gives the nil mapping and a cast error that wraps
\* the decoder's error.
C17_TextIsDecoded ==
    (op = "MapE" /\ src.dyn = "string") =>
        LET d == Decoded(src.val, arg.key[2], arg.val[2])
        IN  /\ ~out.panic
            /\ out.val.nil = d.nil
            /\ DOMAIN out.val.elems = DOMAIN d.elems
            /\ \A k \in DOMAIN d.elems : out.val.elems[k] = d.elems[k]
            /\ d.ok => out.err = NoErr
            /\ ~d.ok => /\ Len(out.err) = 2
                        /\ out.err[1] = Frame("cast", src, "map")
                        /\ out.err[2].e \in {"json syntax", "unmarshal type"}

\* the text {"k":"1"} met a value converter to integers, which would take "1"
C17_Witness ==
    /\ op = "MapE" /\ src = Mk("string", JsonKeyText)
    /\ arg.key = <<"StringE", "string">> /\ arg.val = <<"IntE", "int">>
    /\ out.err # NoErr /\ out.val.nil

-----------------------------------------------------------------------------
\* the error-returning forms of the scalar engines
ScalarEOps == {"BoolE", "IntE", "UintE", "FloatE", "StringE", "DurationE"}

\* r is the outcome a call came to, up to the source named in its error
SameResult(r) ==
    /\ ~out.panic /\ ~r.panic
    /\ (out.err = NoErr) <=> (r.err = NoErr)
    /\ out.val = r.val

\* C19: in every scalar engine a source with both the String and the Value
\* method is converted through the text String() returns, as the engine
\* converts that text; Value() is not consulted.
C19_StringerBeforeValuer ==
    (op \in ScalarEOps /\ src.dyn = "StringerValuer") =>
        SameResult(Apply(<< op, arg.E >>, Mk("string", src.val.s)))

\* C20: the duration engine unwraps its boxes: a *durationpb.Duration gives
\* the duration it carries, a *wrapperspb.StringValue or BytesValue the parse
\* of the text it carries, with no error when that text is a duration.
C20_BoxesUnwrapped ==
    op \in {"DurationE", "Duration"} =>
        /\ src.dyn = "*durationpb.Duration" => out = Outcome(src.val, NoErr)
        /\ (src.dyn \in TextBoxes /\ ParseDuration(src.val).err = "") =>
               out = Outcome(ParseDuration(src.val).v, NoErr)

-----------------------------------------------------------------------------
\* the outcome of the call with frame f when no other call runs
Alone(f) ==
    CASE f.engine = "scalar"          -> Apply(f.a.to, f.o)
      [] f.engine = "toSliceE"        -> toSliceE(f.a.to, f.o)
      [] f.engine = "mapE"            -> mapE(f.o, f.a.key, f.a.val, f.a.order)
      [] f.engine = "timeInLocationE" -> timeInLocationE(f.o, f.a.location)

\* C18: whatever the interleaving of the goroutines' calls, the source stays
\* as each call was given it, the package variables TimeFormats and
\* DefaultTimeFormat keep their values, the results allocated are at
\* addresses of their own, and every call that has returned has returned
\* the outcome it returns when it runs alone.
C18_ConcurrentAsAlone ==
    /\ \A p \in Procs : pc[p] # "idle" => heap.o = frame[p].o
    /\ heap.TimeFormats = TimeFormats
    /\ heap.DefaultTimeFormat = DefaultTimeFormat
    /\ \A p, q \in Procs :
          (p # q /\ frame[p].at # 0 /\ frame[q].at # 0) => frame[p].at # frame[q].at
    /\ \A p \in Procs : pc[p] = "done" => frame[p].ret = Alone(frame[p])

\* two calls of toSliceE on one sequence overlap: g2 allocated its result
\* first and is in the middle of its loop when g1, with another converter,
\* has returned both elements
C18_Witness ==
    /\ pc["g1"] = "done" /\ pc["g2"] = "toSliceE"
    /\ frame["g1"].engine = "toSliceE"
    /\ frame["g2"].at = 1 /\ frame["g1"].at = 2
    /\ frame["g2"].i = 2
    /\ frame["g1"].a.to # frame["g2"].a.to
    /\ frame["g1"].ret.err = NoErr
    /\ Len(frame["g1"].ret.val.elems) = 2

-----------------------------------------------------------------------------
\* C21: the timestamp engine converts a *timestamppb.Timestamp to the instant
\* it carries, with no error.
C21_TimestampBox ==
    (op \in TimeOps /\ src.dyn = "*timestamppb.Timestamp") =>
        /\ ~out.panic
        /\ out.err = NoErr
        /\ out.val = [unix |-> src.val, loc |-> "UTC"]

\* the user-defined types without methods whose underlying type is a
\* built-in bool, integer, unsigned, float, string or byte slice
NamedTypes == {"MyBool", "MyInt", "MyUint", "MyFloat", "MyFloat32", "MyString", "MyBytes"}

\* the value of a named type held in its underlying built-in type
Underlying(o) == Mk(NamedKind[o.dyn], o.val)

\* r is the outcome the call came to: the same fault, or the same value and
\* the same success or failure
LikeResult(r) ==
    IF out.panic \/ r.panic THEN out.panic = r.panic
    ELSE /\ (out.err = NoErr) <=> (r.err = NoErr)
         /\ out.val = r.val

\* C22: in the bool, signed, unsigned, float, string and duration engines a
\* value held in a user-defined named type, which takes the reflection path,
\* converts to the same value with the same success or failure as the value
\* held in its underlying built-in type, which takes the type switch.
C22_FastSlowAgree ==
    (op \in ScalarEOps /\ src.dyn \in NamedTypes) =>
        LikeResult(Apply(<< op, arg.E >>, Underlying(src)))

\* C23: the timestamp engine converts a value of a named type whose
\* underlying kind is string like the equal string, and one whose underlying
\* kind is an integer like the equal integer of Unix seconds.
C23_TimeSlowPath ==
    (op \in {"TimeE", "TimeInLocationE"} /\ src.dyn \in {"MyString", "MyInt", "MyUint"}) =>
        LikeResult(timeInLocationE(Underlying(src), arg.location))

-----------------------------------------------------------------------------
\* the kinds the reflection paths convert
SupportedKinds == {"bool", "string", "[]byte"} \cup IntTypes \cup UintTypes \cup FloatTypes

\* what a pointer chain ends at
ChainEnd(o) == indirectValue(o)

\* C24: in the engines with a reflection path, a chain of pointers that ends
\* at a value of a supported kind converts to the outcome of that value
\* itself, and a chain that ends in a nil pointer gives the zero value and an
\* error, without a fault.
C24_PointerChains ==
    (op \in ScalarEOps /\ src.dyn \in {"ptr", "nilptr"}) =>
        IF ChainEnd(src).dyn = "nilptr"
        THEN ~out.panic /\ out.err # NoErr /\ out.val = Zero(arg.E)
        ELSE Kind(ChainEnd(src).dyn) \in SupportedKinds =>
                LikeResult(Apply(<< op, arg.E >>, ChainEnd(src)))

-----------------------------------------------------------------------------
\* the engine of the call applied to another source
Engine(o) ==
    IF op \in {"TimeE", "TimeInLocationE"} THEN timeInLocationE(o, arg.location)
    ELSE Apply(<< op, arg.E >>, o)

\* the call took its source through Value(): the source has the method and
\* no earlier case of the engine's switch takes it
ThroughValuer ==
    /\ op \in ScalarEOps \cup {"TimeE", "TimeInLocationE"}
    /\ \/ src.dyn = "Valuer"
       \/ src.dyn = "StringerValuer" /\ op # "DurationE"

\* the error of the call is the cast error of its source with cause as its cause
Causes(cause) == out = Outcome(Zero(arg.E), << Frame("cast", src, arg.E) >> \o cause)

\* what the call returns when Value() returned y and the engine returned r
\* for the value yielded
ViaValuer(y, r) ==
    IF y.err # NoErr THEN Causes(y.err)
    ELSE IF r.panic THEN out.panic
    ELSE IF r.err # NoErr THEN Causes(r.err)
    ELSE out = r

\* C25: a call that takes its source through Value() returns what the same
\* engine returns for the value yielded; when Value() fails, or the engine
\* fails on the value yielded, it returns the zero value and the cast error
\* of the source wrapping that error.
C25_ValuerOutcome ==
    ThroughValuer => ViaValuer(ValueOf(src), Engine(src.val.v))

\* Value() yielded the text "a" and IntE failed on it: the error names the
\* valuer, then the text, then the parse error
C25_Witness ==
    /\ op = "IntE"
    /\ src.dyn = "Valuer" /\ ~src.val.err
    /\ src.val.v = Mk("string", <<"a">>)
    /\ Len(out.err) = 3
    /\ out.err[1] = Frame("cast", src, arg.E)

-----------------------------------------------------------------------------
\* r is the text s cut at some length
IsPrefix(r, s) == Len(r) <= Len(s) /\ r = SubSeq(s, 1, Len(r))

\* t is one "." followed by one or more "0" and nothing else
ZeroDecimal(t) ==
    /\ Len(t) >= 2
    /\ t[1] = "."
    /\ \A i \in 2..Len(t) : t[i] = "0"

\* C26: the result of the normalizer is a prefix of its input, and where it
\* differs from the input the part removed is one "." followed by one or
\* more "0" and nothing else.
C26_RemovesZeroDecimal ==
    op = "trimZeroDecimal" =>
        /\ IsPrefix(out.val, src.val)
        /\ out.val # src.val => ZeroDecimal(Tail2(src.val, Len(out.val)))

-----------------------------------------------------------------------------
\* C27: a call of the mapping engine returns the same outcome whatever the
\* order in which the runtime yields the keys of its source.
C27_OrderIndependent ==
    op = "MapE" =>
        \A order \in Orders(src) : MapE(src, arg.key, arg.val, order) = out

-----------------------------------------------------------------------------
\* the call of goroutine p is between its Get and its Put
Holds(p) == pc[p] \in {"Reset", "WriteString", "String", "Put"}

\* C28: under every interleaving of calls of Quote, a buffer is held by one
\* call at most between Get and Put and is not in the pool meanwhile, and
\* every call returns quote + e + quote whatever the buffer held before.
C28_QuoteExclusive ==
    /\ \A p \in Procs : Holds(p) => frame[p].buffer \notin heap.pool
    /\ \A p, q \in Procs : (p # q /\ Holds(p) /\ Holds(q)) => frame[p].buffer # frame[q].buffer
    /\ \A p \in Procs :
          pc[p] = "done" => frame[p].ret = frame[p].quote \o frame[p].e \o frame[p].quote

\* g2 has got a buffer that still holds the text an earlier call left in it
\* and has not reset it yet, while g1 is writing into a buffer of its own
C28_Witness ==
    /\ pc["g2"] = "Reset"
    /\ heap.bytes[frame["g2"].buffer] = <<"*", "a", "*">>
    /\ frame["g2"].quote = <<"'">>
    /\ pc["g1"] = "WriteString" /\ frame["g1"].i = 1
    /\ heap.bytes[frame["g1"].buffer] = <<"'">>

-----------------------------------------------------------------------------
\* C29: every call returns: the recursion into the value a valuer yields or
\* a box carries and the loop of indirectValue come to an end for every
\* source, a valuer that yields itself or another valuer and a pointer that
\* refers to itself included.
C29_Terminates ==
    \A p \in Procs : (pc[p] \in {"switch", "indirectValue"}) ~> (pc[p] = "returned")

-----------------------------------------------------------------------------
\* the call made again on the source o
Again(o) ==
    IF op = "MapE" THEN MapE(o, arg.key, arg.val, arg.order) ELSE Engine(o)

\* C30: a byte-slice source gives, in every scalar engine and in the mapping
\* engine, the value and the success or failure the string of the same
\* bytes gives.
C30_BytesLikeString ==
    (/\ op \in ScalarEOps \cup {"TimeE", "TimeInLocationE", "MapE"}
     /\ src.dyn = "[]byte") =>
        LikeResult(Again(Mk("string", src.val)))

====
